---- MODULE Spec2Model ----
(***************************************************************************)
(* A model of the DynSoA adaptive layout runtime: the entity store         *)
(* (views, columns, layout transforms), the metrics windows, the layout    *)
(* planner and the end-of-frame scheduler with its deferred learner.       *)
(*                                                                         *)
(* Numbers.  The code computes in double; the model computes in exact      *)
(* fixed point, every quantity an integer count of a stated unit:          *)
(*   latencies of an aggregate      1/AggScale microsecond                 *)
(*   signals of a sample            1/SigScale                             *)
(*   signals of an aggregate        1/(SigScale*AggScale)                  *)
(*   learned coefficients           1/CoefScale                            *)
(*   estimated cost                 1/CostScale microsecond                *)
(*   estimated gain                 1/GainScale microsecond                *)
(*   latencies of an EWMA           1/EwmaScale microsecond                *)
(*   signals of an EWMA             1/(SigScale*EwmaScale)                 *)
(* Scores are kept as exact fractions and compared exactly.                *)
(***************************************************************************)
EXTENDS Integers, Sequences, FiniteSets, TLC

(* ------------------------------------------------------------------ *)
(* Units                                                               *)
(* ------------------------------------------------------------------ *)

\* aggregate(v, k) divides sums by n <= k; 60 = lcm(1..6) keeps n = 1..6 exact
AggScale == 2 * 2 * 3 * 5
SigScale == 10 * 10
AggSig == SigScale * AggScale
CoefScale == 10 ^ 7
\* est_cost_us = bytes / 4096: one unit of cost is 1/4096 us, i.e. one byte
CostScale == 4096
\* 0.35 * base and 0.20 * base are whole in 1/1200 us when base is in 1/60 us
GainScale == 20 * AggScale
\* lerp takes a fifth of the sum: 125 keeps three lerps of whole values exact
EwmaScale == 5 * 5 * 5

(* ------------------------------------------------------------------ *)
(* Exact integer helpers (TLC integers are 32 bit)                     *)
(* ------------------------------------------------------------------ *)

Max(a, b) == IF a >= b THEN a ELSE b
Min(a, b) == IF a <= b THEN a ELSE b
Abs(a) == IF a < 0 THEN -a ELSE a

\* floor(a * b / c) for a, b >= 0 and 0 < c < 2^30, without forming a * b:
\* b is consumed bit by bit, keeping a * (bits so far) = q * c + r, r < c.
\* h is the result for b \div 2.
MulDivBit(h, a, odd, c) ==
  LET r2 == 2 * h.r
      r3 == (r2 % c) + (a % c)
  IN IF ~odd THEN [q |-> 2 * h.q + (r2 \div c), r |-> r2 % c]
     ELSE [q |-> 2 * h.q + (r2 \div c) + (a \div c) + (r3 \div c), r |-> r3 % c]

RECURSIVE MulDivQR(_, _, _)
MulDivQR(a, b, c) ==
  IF b = 0 THEN [q |-> 0, r |-> 0]
  ELSE MulDivBit(MulDivQR(a, b \div 2, c), a, b % 2 = 1, c)

MulDiv(a, b, c) == MulDivQR(a, b, c).q

\* a * b / c rounded toward zero, for either sign of a
SMulDiv(a, b, c) == IF a >= 0 THEN MulDiv(a, b, c) ELSE -MulDiv(-a, b, c)

\* sign of a/b - c/d for a, c >= 0 and b, d > 0 (continued fractions: exact)
RECURSIVE CmpFrac(_, _, _, _)
CmpFrac(a, b, c, d) ==
  LET q1 == a \div b
      q2 == c \div d
      r1 == a % b
      r2 == c % d
  IN IF q1 # q2 THEN (IF q1 > q2 THEN 1 ELSE -1)
     ELSE IF r1 = 0 /\ r2 = 0 THEN 0
     ELSE IF r1 = 0 THEN -1
     ELSE IF r2 = 0 THEN 1
     ELSE CmpFrac(d, r2, b, r1)

\* the sequences over S that hold each element of S once
Perms(S) ==
  {p \in [1..Cardinality(S) -> S] : \A i, j \in 1..Cardinality(S) : i # j => p[i] # p[j]}

RECURSIVE SumSeq(_)
SumSeq(s) == IF s = <<>> THEN 0 ELSE Head(s) + SumSeq(Tail(s))

RECURSIVE SumOver(_, _)
SumOver(f, S) ==
  IF S = {} THEN 0
  ELSE LET x == CHOOSE y \in S : TRUE IN f[x] + SumOver(f, S \ {x})

(* ------------------------------------------------------------------ *)
(* State                                                               *)
(* ------------------------------------------------------------------ *)

VARIABLES
  g_views,                \* the view table, view id = index
  mb,                     \* the MatrixBlock the application holds
  g_agg,                  \* view id -> sample window (only ids that got a sample)
  g_policy,               \* the installed Policy
  g_cooldown,             \* view id -> cool-off counter (absent reads as 0)
  g_frame_idx,            \* frame counter, advanced by begin_frame
  g_learn,                \* LearnState: a_div, a_mem, a_tail
  g_pre_action_baseline,  \* view id -> latency recorded when a retile was applied
  g_action_frame,         \* view id -> frame of the last applied retile
  g_bandit,               \* view id -> action key -> BanditStat
  g_bandit_t,             \* the decision epoch counter of pick_with_ucb
  g_cfg,                  \* dynsoa.cpp g_cfg, the stored Config
  g_once,                 \* the once_flag of dynsoa_init
  g_inited,               \* dynsoa.cpp g_inited
  persist_file,           \* contents of the persistence file, or NoFile
  crashed,                \* "no", or how the process ended: "trap", "exception", "oob"
  pc,                     \* the position of the driving program (scenarios only)
  ev,                     \* what the last end_frame did (observation only)
  hist,                   \* per view: end_frame invocations since its last retile (observation only)
  snap                    \* columns as they were before an SoA->AoSoA transform (observation only)

storeVars == <<g_views, mb>>
metricVars == <<g_agg>>
banditVars == <<g_bandit, g_bandit_t>>
schedVars == <<g_policy, g_cooldown, g_frame_idx, g_learn, g_pre_action_baseline,
               g_action_frame, g_bandit, g_bandit_t>>
lifeVars == <<g_cfg, g_once, g_inited, persist_file>>
obsVars == <<ev, hist, snap>>
vars == <<g_views, mb, g_agg, g_policy, g_cooldown, g_frame_idx, g_learn,
          g_pre_action_baseline, g_action_frame, g_bandit, g_bandit_t,
          g_cfg, g_once, g_inited, persist_file,
          crashed, pc, ev, hist, snap>>

(* ------------------------------------------------------------------ *)
(* Entity store                                                        *)
(* ------------------------------------------------------------------ *)

\* sizeof(float): the element size of every materialized column
ElemSize == 4

SpawnPaths == {"Position.x", "Position.y", "Position.z",
               "Velocity.vx", "Velocity.vy", "Velocity.vz"}

\* A column: its byte size and its elements.  Elements are kept sparsely:
\* cells maps the rows holding a non-zero element to it, every other row is 0.
NoCells == [i \in {} |-> 0]
ColumnData(count) == [elem_size |-> ElemSize, size |-> count * ElemSize, cells |-> NoCells]

CellAt(col, i) == IF i \in DOMAIN col.cells THEN col.cells[i] ELSE 0

SetCell(col, i, val) ==
  LET D == IF val = 0 THEN DOMAIN col.cells \ {i} ELSE DOMAIN col.cells \cup {i}
  IN [col EXCEPT !.cells = [j \in D |-> IF j = i THEN val ELSE col.cells[j]]]

ViewRec(arch, len, columns) ==
  [arch |-> arch, len |-> len, columns |-> columns, layout |-> "SoA", aosoa_tile |-> 0]

ViewIds == 1..Len(g_views)

\* a variant that gives archetype 2 the Position columns only
spawn_per_archetype(views, arch, count) ==
  Append(views, ViewRec(arch, count,
                        [p \in IF arch = 2 THEN {"Position.x", "Position.y", "Position.z"}
                                ELSE SpawnPaths |-> ColumnData(count)]))

\* spawn: one more view of six zeroed F32 columns
spawn(views, arch, count) ==
  Append(views, ViewRec(arch, count, [p \in SpawnPaths |-> ColumnData(count)]))

\* variant: the index i where the code returns i + 1
make_view_index(views, arch) ==
  IF \E i \in 1..Len(views) : views[i].arch = arch
  THEN (CHOOSE i \in 1..Len(views) :
          /\ views[i].arch = arch
          /\ \A j \in 1..(i - 1) : views[j].arch # arch) - 1
  ELSE Len(views)

\* make_view: the first view of the archetype, else a new empty one
make_view_id(views, arch) ==
  IF \E i \in 1..Len(views) : views[i].arch = arch
  THEN CHOOSE i \in 1..Len(views) :
         /\ views[i].arch = arch
         /\ \A j \in 1..(i - 1) : views[j].arch # arch
  ELSE Len(views) + 1

make_view(views, arch) ==
  IF \E i \in 1..Len(views) : views[i].arch = arch
  THEN views
  ELSE Append(views, ViewRec(arch, 0, [p \in {} |-> ColumnData(0)]))

bytes_to_move(V) == SumOver([p \in DOMAIN V.columns |-> V.columns[p].size], DOMAIN V.columns)

\* tile_cnt = (N + T - 1) / T in size_t (64 bit).  T is an int converted to size_t:
\* a negative T is 2^64 + T, so the sum wraps; the quotient is then 1 when
\* 1 <= N <= -T and 0 otherwise.  T = 0 divides by zero; where that does not
\* trap the quotient is 0.  First a variant that rounds the quotient down, so
\* that the last partial tile is lost; then tile_cnt as the code computes it.
TileCntFloor(N, T) ==
  IF T > 0 THEN N \div T
  ELSE IF T = 0 THEN 0
  ELSE IF N >= 1 /\ N + T - 1 < 0 THEN 1 ELSE 0

TileCnt(N, T) ==
  IF T > 0 THEN (N + T - 1) \div T
  ELSE IF T = 0 THEN 0
  ELSE IF N >= 1 /\ N + T - 1 < 0 THEN 1 ELSE 0

\* row i is copied by the tile loop: tile k = i / T, rows [k*T, min(N, k*T + T))
Covered(i, N, T) ==
  IF T > 0 THEN LET k == i \div T IN k < TileCnt(N, T) /\ i < Min(N, k * T + T)
  ELSE IF T = 0 THEN FALSE
  ELSE TileCnt(N, T) = 1 /\ i < N

\* a variant of TileCopy whose dst is sized to whole tiles
TileCopyPadded(col, N, T) ==
  [elem_size |-> col.elem_size,
   size |-> Max(TileCnt(N, T) * Abs(T), N) * col.elem_size,
   cells |-> [i \in {j \in DOMAIN col.cells : Covered(j, N, T)} |-> col.cells[i]]]

\* one column through the tile loop: a zeroed dst of the same size, tiles copied in
TileCopy(col, N, T) ==
  [elem_size |-> col.elem_size,
   size |-> col.size,
   cells |-> [i \in {j \in DOMAIN col.cells : Covered(j, N, T)} |-> col.cells[i]]]

\* one column through a whole-buffer memcpy
FullCopy(col) ==
  [elem_size |-> col.elem_size,
   size |-> col.size,
   cells |-> [i \in DOMAIN col.cells |-> col.cells[i]]]

transform_soa_to_aosoa(V, T) ==
  [V EXCEPT !.columns = [p \in DOMAIN V.columns |-> TileCopy(V.columns[p], V.len, T)],
            !.layout = "AoSoA",
            !.aosoa_tile = T]

transform_aosoa_to_soa(V) ==
  IF V.layout # "AoSoA"
  THEN [V EXCEPT !.layout = "SoA", !.aosoa_tile = 0]
  ELSE [V EXCEPT !.columns = [p \in DOMAIN V.columns |-> FullCopy(V.columns[p])],
                 !.layout = "SoA",
                 !.aosoa_tile = 0]

(* ------------------------------------------------------------------ *)
(* Matrix blocks                                                       *)
(* ------------------------------------------------------------------ *)

\* MatrixBlock{}: data is null
MatrixBlock0 ==
  [has_data |-> FALSE, data |-> <<>>, rows |-> 0, cols |-> 0, leading_dim |-> 0,
   bytes |-> 0, offset |-> 0]

\* variant: row-major cells
BlockIndexRowMajor(j, i, B, K) == i * K + j
\* mb.data[j*B + i]: column-major cells
BlockIndex(j, i, B, K) == j * B + i

\* acquire copies cell (j, i) when comps[j] is a column and row offset + i exists
Copied(V, comps, offset, j, i) == comps[j + 1] \in DOMAIN V.columns /\ offset + i < V.len

\* the cell of data at index n after acquire: the element copied into it, or what
\* malloc left there (junk) when no (j, i) reaches it
AcquiredCell(V, comps, B, offset, junk, n, hits) ==
  IF hits = {} THEN junk[n + 1]
  ELSE LET h == CHOOSE h \in hits : \A g \in hits : g[1] <= h[1]
       IN CellAt(V.columns[comps[h[1] + 1]], offset + h[2])

\* acquire_matrix_block(v, comps, K, B, offset); K = Len(comps), junk the contents
\* of the malloc'ed buffer
acquire_matrix_block(V, comps, B, offset, junk) ==
  [has_data |-> TRUE,
   data |-> [m \in 1..(B * Len(comps)) |->
               AcquiredCell(V, comps, B, offset, junk, m - 1,
                            {h \in (0..(Len(comps) - 1)) \X (0..(B - 1)) :
                               /\ BlockIndex(h[1], h[2], B, Len(comps)) = m - 1
                               /\ Copied(V, comps, offset, h[1], h[2])})],
   rows |-> B, cols |-> Len(comps), leading_dim |-> B,
   bytes |-> ElemSize * B * Len(comps), offset |-> offset]

\* a variant of the write-back that stores every row of the block, from row 0 of
\* the column
WriteBackFromTop(V, blk, j, path) ==
  [V.columns[path] EXCEPT
     !.cells = LET val(r) == IF r < blk.rows
                             THEN blk.data[BlockIndex(j, r, blk.rows, blk.cols) + 1]
                             ELSE CellAt(V.columns[path], r)
               IN [r \in {q \in 0..(V.len - 1) : val(q) # 0} |-> val(r)]]

\* the write-back of block column j into column path of V
WriteBackColumn(V, blk, j, path) ==
  [V.columns[path] EXCEPT
     !.cells = LET rows == {i \in 0..(blk.rows - 1) : blk.offset + i < V.len}
                   val(r) == IF r - blk.offset \in rows
                             THEN blk.data[BlockIndex(j, r - blk.offset, blk.rows, blk.cols) + 1]
                             ELSE CellAt(V.columns[path], r)
               IN [r \in {q \in 0..(V.len - 1) : val(q) # 0} |-> val(r)]]

\* release_matrix_block with write_back: the first K columns in the iteration order
\* of V.columns (order) get block columns 0..K-1
WriteBack(V, blk, order) ==
  [V EXCEPT !.columns =
     [p \in DOMAIN V.columns |->
        IF \E j \in 1..Min(blk.cols, Len(order)) : order[j] = p
        THEN WriteBackColumn(V, blk, (CHOOSE j \in 1..Min(blk.cols, Len(order)) : order[j] = p) - 1, p)
        ELSE V.columns[p]]]

release_matrix_block(V, blk, write_back, order) ==
  IF write_back /\ blk.has_data THEN WriteBack(V, blk, order) ELSE V

(* ------------------------------------------------------------------ *)
(* Metrics                                                             *)
(* ------------------------------------------------------------------ *)

\* the sample window keeps the last 120 samples
WindowCap == 120

\* Sample with the defaults of metrics.h; signals in 1/SigScale
Sample(view, time_us) ==
  [kernel |-> "k", view |-> view, warp_eff |-> SigScale, branch_div |-> 0,
   mem_coalesce |-> SigScale, l2_miss_rate |-> 0,
   time_us |-> time_us, p95_tile_us |-> 0, p99_tile_us |-> 0]

\* FrameAgg{}: the default member initializers of types.h
FrameAgg0 ==
  [mean_us |-> 0, p95_us |-> 0, p99_us |-> 0,
   warp_eff |-> AggSig, branch_div |-> 0, mem_coalesce |-> AggSig, l2_miss |-> 0,
   tail_ratio |-> 0]

\* FrameAgg{} as the ewma member of a fresh AggState
Ewma0 ==
  [mean_us |-> 0, p95_us |-> 0, p99_us |-> 0,
   warp_eff |-> SigScale * EwmaScale, branch_div |-> 0,
   mem_coalesce |-> SigScale * EwmaScale, l2_miss |-> 0,
   tail_ratio |-> 0]

\* g_agg[v]: the entry of v, value-initialized when absent
Window(agg, v) == IF v \in DOMAIN agg THEN agg[v].window ELSE <<>>
EwmaOf(agg, v) == IF v \in DOMAIN agg THEN agg[v].ewma ELSE Ewma0

AggState(window, ewma) == [window |-> window, ewma |-> ewma]
SetAgg(agg, v, st) == [u \in DOMAIN agg \cup {v} |-> IF u = v THEN st ELSE agg[u]]

\* variant: the window never drops a sample
KeepAll(w) == w
\* pop_front once the size has passed 120
DropOldest(w) == IF Len(w) > WindowCap THEN Tail(w) ELSE w

emit_metric(agg, s) ==
  SetAgg(agg, s.view,
         AggState(DropOldest(Append(Window(agg, s.view), s)), EwmaOf(agg, s.view)))

\* tail_ratio = p95 > 0 ? p99 / p95 : 0
TailRatio(p95, p99) == IF p95 > 0 THEN MulDiv(p99, AggSig, p95) ELSE 0

\* lerp(cur, obs) = 0.8 * cur + 0.2 * obs, cur in EWMA units, obs a sample field
Lerp(cur, obs) == (4 * cur + obs * EwmaScale) \div 5
\* (cur == 0) ? obs : lerp(cur, obs)
FirstOrLerp(cur, obs) == IF cur = 0 THEN obs * EwmaScale ELSE Lerp(cur, obs)

\* variant: the ratio of the p95 and p99 the EWMA held before the update
TailStale(E, p95, p99) == TailRatio(E.p95_us, E.p99_us)
\* E.tail_ratio is computed last, from the updated p95 and p99
TailFresh(E, p95, p99) == TailRatio(p95, p99)

NoteEwma(E, s, p95, p99) ==
  [mean_us |-> FirstOrLerp(E.mean_us, s.time_us),
   warp_eff |-> FirstOrLerp(E.warp_eff, s.warp_eff),
   branch_div |-> Lerp(E.branch_div, s.branch_div),
   mem_coalesce |-> Lerp(E.mem_coalesce, s.mem_coalesce),
   l2_miss |-> Lerp(E.l2_miss, s.l2_miss_rate),
   p95_us |-> p95,
   p99_us |-> p99,
   tail_ratio |-> TailFresh(E, p95, p99)]

\* metrics_note_frame_end(v, s): g_agg[v] is created when absent
metrics_note_frame_end(agg, v, s) ==
  SetAgg(agg, v,
         AggState(Window(agg, v),
                  NoteEwma(EwmaOf(agg, v), s,
                           FirstOrLerp(EwmaOf(agg, v).p95_us, s.p95_tile_us),
                           FirstOrLerp(EwmaOf(agg, v).p99_us, s.p99_tile_us))))

\* the Sample of run_kernel: only kernel, view and time_us are set
KernelSample(name, v, us) == [Sample(v, us) EXCEPT !.kernel = name]

\* run_kernel(name, fn, v, ctx) with fn taking us microseconds
run_kernel(agg, name, v, us) ==
  metrics_note_frame_end(emit_metric(agg, KernelSample(name, v, us)), v,
                         KernelSample(name, v, us))

\* the sums of aggregate over the n >= 1 samples of scan, oldest first.  The sums
\* start from FrameAgg{} (so warp_eff and mem_coalesce start at 1), p95/p99 are
\* those of the last sample visited (the oldest of the scan), all divided by n.
AggOver(scan, n) ==
  [mean_us |-> (SumSeq([i \in 1..n |-> scan[i].time_us]) * AggScale) \div n,
   p95_us |-> scan[1].p95_tile_us * AggScale,
   p99_us |-> scan[1].p99_tile_us * AggScale,
   warp_eff |-> ((SigScale + SumSeq([i \in 1..n |-> scan[i].warp_eff])) * AggScale) \div n,
   branch_div |-> (SumSeq([i \in 1..n |-> scan[i].branch_div]) * AggScale) \div n,
   mem_coalesce |-> ((SigScale + SumSeq([i \in 1..n |-> scan[i].mem_coalesce])) * AggScale) \div n,
   l2_miss |-> (SumSeq([i \in 1..n |-> scan[i].l2_miss_rate]) * AggScale) \div n,
   tail_ratio |-> TailRatio(scan[1].p95_tile_us * AggScale, scan[1].p99_tile_us * AggScale)]

\* variant: the scan starts at the oldest sample
FirstN(dq, n) == SubSeq(dq, 1, n)
\* the last n samples of the window dq
LastN(dq, n) == SubSeq(dq, Len(dq) - n + 1, Len(dq))

AggWindow(dq, n) == IF n = 0 THEN FrameAgg0 ELSE AggOver(LastN(dq, n), n)

\* aggregate(v, window_frames): the scan runs from the newest sample back over
\* n = min(size, window_frames) samples; a view without samples gives FrameAgg{}
aggregate(agg, v, window_frames) ==
  IF v \notin DOMAIN agg THEN FrameAgg0
  ELSE AggWindow(agg[v].window, Max(0, Min(Len(agg[v].window), window_frames)))

(* ------------------------------------------------------------------ *)
(* Layout planner                                                      *)
(* ------------------------------------------------------------------ *)

\* LayoutKind as numbered in layout.h
LayoutNum(k) == CASE k = "AoS" -> 0 [] k = "SoA" -> 1 [] k = "AoSoA" -> 2 [] k = "Matrix" -> 3

\* RetilePlan{}: SoA, 0, 0.0, 0.0
RetilePlan0 == [to |-> "SoA", tile_or_block |-> 0, est_cost_us |-> 0, est_gain_us |-> 0]

\* max(0, x) of a signal difference, thresholds given in hundredths
Hundredths(h) == h * AggScale

\* the signal terms of an aggregate (layout.cpp lines 38-40, scheduler.cpp lines 245-247)
DivTerm(a) == Max(0, a.branch_div - Hundredths(15))
MemTerm(a) == Max(0, Hundredths(75) - a.mem_coalesce)
TailTerm(a) == Max(0, a.tail_ratio - Hundredths(110))

\* sum of coefficient * term, in 1/CoefScale
Predicted(L, dt, mt, tt) ==
  SMulDiv(L.a_div, dt, AggSig) + SMulDiv(L.a_mem, mt, AggSig) + SMulDiv(L.a_tail, tt, AggSig)

\* base * (sum of coefficient * term), in 1/GainScale us
GainRaw(base, s) == SMulDiv(s, (GainScale \div AggScale) * base, CoefScale)

\* a variant of the clamp in which the ceiling wins over the floor
ClampGainCeiling(raw, lo, hi) == Min(hi, Max(lo, raw))

\* est_gain = max(lo, min(raw, hi))
ClampGain(raw, lo, hi) == Max(lo, Min(raw, hi))

PlanBase(a) ==
  IF a.p95_us > 0 THEN a.p95_us ELSE IF a.mean_us > 0 THEN a.mean_us ELSE 500 * AggScale

\* plan_aosoa: cost bytes / 4096; gain clamped to [30, 0.35 * base], where
\* 0.35 * base is 7 * base in 1/GainScale us
plan_aosoa(V, a, L, tile) ==
  [to |-> "AoSoA", tile_or_block |-> tile,
   est_cost_us |-> bytes_to_move(V),
   est_gain_us |-> ClampGain(GainRaw(PlanBase(a),
                                     Predicted(L, DivTerm(a), MemTerm(a), TailTerm(a))),
                             30 * GainScale, 7 * PlanBase(a))]

MatrixBase(a) == IF a.mean_us > 0 THEN a.mean_us ELSE 400 * AggScale

\* plan_matrix: cost 0.25 * bytes / 4096 (column sizes are multiples of 4); gain
\* clamped to [15, 0.20 * base], where 0.20 * base is 4 * base in 1/GainScale us
plan_matrix(V, a, L, block) ==
  [to |-> "Matrix", tile_or_block |-> block,
   est_cost_us |-> bytes_to_move(V) \div 4,
   est_gain_us |-> ClampGain(GainRaw(MatrixBase(a),
                                     SMulDiv(SMulDiv(L.a_mem, 8, 10),
                                             Max(0, Hundredths(80) - a.mem_coalesce), AggSig)),
                             15 * GainScale, 4 * MatrixBase(a))]

retile_to_soa(V) == transform_aosoa_to_soa(V)

\* a variant that packs the view in place for the target Matrix
retile_packing(V, plan) ==
  CASE plan.to \in {"AoSoA", "Matrix"} -> transform_soa_to_aosoa(V, plan.tile_or_block)
    [] plan.to = "SoA" -> transform_aosoa_to_soa(V)
    [] OTHER -> V

\* retile: the switch on plan.to; AoS and anything else change nothing
retile(V, plan) ==
  CASE plan.to = "AoSoA" -> transform_soa_to_aosoa(V, plan.tile_or_block)
    [] plan.to = "SoA" -> transform_aosoa_to_soa(V)
    [] OTHER -> V

\* retile returns false only for AoS and unknown targets
retile_ok(plan) == plan.to \in {"AoSoA", "SoA", "Matrix"}

\* the integer division by zero in transform_soa_to_aosoa(v, 0)
DividesByZero(plan) == plan.to = "AoSoA" /\ plan.tile_or_block = 0

(* ------------------------------------------------------------------ *)
(* Scheduler: predicate evaluator                                      *)
(* ------------------------------------------------------------------ *)

CharAt(s, i) == SubSeq(s, i, i)

\* s.find(pat): the first position (from 1) where pat occurs, 0 for npos
Find(s, pat) ==
  LET P == {i \in 1..(Len(s) - Len(pat) + 1) : SubSeq(s, i, i + Len(pat) - 1) = pat}
  IN IF P = {} THEN 0 ELSE CHOOSE i \in P : \A j \in P : i <= j

\* trim: drop blanks and tabs at both ends
trim(s) ==
  LET P == {i \in 1..Len(s) : CharAt(s, i) \notin {" ", "\t"}}
  IN IF P = {} THEN ""
     ELSE SubSeq(s, CHOOSE i \in P : \A j \in P : i <= j,
                    CHOOSE i \in P : \A j \in P : i >= j)

\* field_value: the field and the unit it is counted in; unknown names are 0
field_value(name, a) ==
  CASE name = "mean_us" -> [v |-> a.mean_us, scale |-> AggScale]
    [] name = "p95_us" -> [v |-> a.p95_us, scale |-> AggScale]
    [] name = "p99_us" -> [v |-> a.p99_us, scale |-> AggScale]
    [] name = "warp_eff" -> [v |-> a.warp_eff, scale |-> AggSig]
    [] name = "branch_div" -> [v |-> a.branch_div, scale |-> AggSig]
    [] name = "mem_coalesce" -> [v |-> a.mem_coalesce, scale |-> AggSig]
    [] name = "l2_miss" -> [v |-> a.l2_miss, scale |-> AggSig]
    [] name = "tail_ratio" -> [v |-> a.tail_ratio, scale |-> AggSig]
    [] OTHER -> [v |-> 0, scale |-> 1]

Digits == <<"0", "1", "2", "3", "4", "5", "6", "7", "8", "9">>
IsDigit(c) == \E k \in 1..10 : Digits[k] = c
DigitVal(c) == (CHOOSE k \in 1..10 : Digits[k] = c) - 1

\* the run of digits of s from position i: its value, its length
RECURSIVE DigitRun(_, _, _, _)
DigitRun(s, i, acc, n) ==
  IF i <= Len(s) /\ IsDigit(CharAt(s, i))
  THEN DigitRun(s, i + 1, 10 * acc + DigitVal(CharAt(s, i)), n + 1)
  ELSE [val |-> acc, n |-> n]

\* the value std::stod reads: sign, integer part ip, fraction fp
StodValue(neg, ip, fp) ==
  IF ip.n + fp.n = 0 THEN [throws |-> TRUE, neg |-> FALSE, m |-> 0, d |-> 0]
  ELSE [throws |-> FALSE, neg |-> neg, m |-> ip.val * (10 ^ fp.n) + fp.val, d |-> fp.n]

\* the digits after the point at position i1, if there is one
StodFrac(s, i1) ==
  IF i1 <= Len(s) /\ CharAt(s, i1) = "." THEN DigitRun(s, i1 + 1, 0, 0)
  ELSE [val |-> 0, n |-> 0]

StodFrom(s, neg, i0, ip) == StodValue(neg, ip, StodFrac(s, i0 + ip.n))

StodSigned(s, signed) ==
  StodFrom(s, signed /\ CharAt(s, 1) = "-", IF signed THEN 2 ELSE 1,
           DigitRun(s, IF signed THEN 2 ELSE 1, 0, 0))

\* std::stod on decimal text: an optional sign, digits, an optional point and
\* digits; what follows the number is ignored; no digit at all throws
\* std::invalid_argument.  The value is (neg ? -1 : 1) * m / 10^d.
\* (Exponents, hex floats, "inf" and "nan" are outside the texts modelled.)
stod(s) == StodSigned(s, Len(s) >= 1 /\ CharAt(s, 1) \in {"+", "-"})

Ops == <<">=", "<=", "==", ">", "<">>

\* the first operator of Ops, in that order, that occurs in expr; 0 for none
FirstOp(expr) ==
  LET F == {k \in 1..5 : Find(expr, Ops[k]) # 0}
  IN IF F = {} THEN 0 ELSE CHOOSE k \in F : \A j \in F : k <= j

\* the comparison L op R, cmp the sign of L - R
AtomVal(op, cmp) ==
  CASE op = ">" -> cmp > 0
    [] op = "<" -> cmp < 0
    [] op = ">=" -> cmp >= 0
    [] op = "<=" -> cmp <= 0
    [] op = "==" -> cmp = 0

\* L is a field (never negative) counted in L.scale; the comparison with
\* R = m / 10^d is exact.  "==" is fabs(L - R) < 1e-9, which for the numbers
\* modelled (units far coarser than 1e-9) is equality.
AtomCmp(op, L, R) ==
  IF R.throws THEN [throws |-> TRUE, val |-> FALSE]
  ELSE [throws |-> FALSE,
        val |-> AtomVal(op, IF R.neg /\ R.m > 0 THEN 1
                            ELSE CmpFrac(L.v, L.scale, R.m, 10 ^ R.d))]

\* the atom split at its operator op, found at pos
AtomSplit(expr, op, pos, a) ==
  AtomCmp(op, field_value(trim(SubSeq(expr, 1, pos - 1)), a),
          stod(trim(SubSeq(expr, pos + Len(op), Len(expr)))))

AtomWith(expr, k, a) ==
  IF k = 0 THEN [throws |-> FALSE, val |-> FALSE]
  ELSE AtomSplit(expr, Ops[k], Find(expr, Ops[k]), a)

AtomOf(expr, a) == AtomWith(expr, FirstOp(expr), a)

\* eval_atom: [throws, val]; text without an operator is false
eval_atom(expr0, a) == AtomOf(trim(expr0), a)

\* variant: both connectives read as a disjunction
PredJoinAny(isAnd, l, r) == IF l.throws \/ l.val THEN l ELSE r

\* the two atoms joined: && and || short-circuit
PredJoin(isAnd, l, r) ==
  IF isAnd THEN (IF l.throws \/ ~l.val THEN l ELSE r)
  ELSE (IF l.throws \/ l.val THEN l ELSE r)

PredSplit(when, andpos, pos, a) ==
  IF pos = 0 THEN eval_atom(when, a)
  ELSE PredJoin(andpos # 0, eval_atom(SubSeq(when, 1, pos - 1), a),
                eval_atom(SubSeq(when, pos + 2, Len(when)), a))

PredAt(when, andpos, orpos, a) ==
  PredSplit(when, andpos, IF andpos # 0 THEN andpos ELSE orpos, a)

\* eval_pred: one "&&" or else one "||" splits the text
eval_pred(when, a) == PredAt(when, Find(when, "&&"), Find(when, "||"), a)

(* ------------------------------------------------------------------ *)
(* Scheduler: end-of-frame applier                                     *)
(* ------------------------------------------------------------------ *)

\* end_frame scans view ids 1..64
ScanViews == 64
\* the per-frame latency budget, in microseconds
BudgetUs == 200000

PolicyTrigger(when, action, arg, priority) ==
  [when |-> when, action |-> action, arg |-> arg, priority |-> priority]

\* Policy with the defaults of scheduler.h
Policy(triggers, cooloff_frames) ==
  [triggers |-> triggers, min_frames_between_retiles |-> 5, cooloff_frames |-> cooloff_frames]

\* LearnState{}: 0.06, 0.04, 0.02
LearnState0 ==
  [a_div |-> 6 * (CoefScale \div 100), a_mem |-> 4 * (CoefScale \div 100),
   a_tail |-> 2 * (CoefScale \div 100)]

\* unordered_map operator[]: a missing key reads as 0 (and is inserted)
Get0(m, v) == IF v \in DOMAIN m THEN m[v] ELSE 0
Put(m, v, x) == [u \in DOMAIN m \cup {v} |-> IF u = v THEN x ELSE m[u]]
Erase(m, v) == [u \in DOMAIN m \ {v} |-> m[u]]

\* an unordered_map with no entry
NoMap == [v \in {} |-> 0]

\* ---- the UCB1 bandit (scheduler.cpp lines 50-104) ----
\* rewards, means and bonuses are counted in 1/BanditScale us, m2 in 1/BanditScale^2
BanditScale == 1000

\* BanditStat{}
BanditStat0 == [mean |-> 0, m2 |-> 0, n |-> 0]

\* BanditStat::update (Welford); delta / n rounds down in the model's unit
BanditStatUpdate(s, r) ==
  LET n == s.n + 1
      delta == r - s.mean
      mean == s.mean + (delta \div n)
  IN [mean |-> mean, m2 |-> s.m2 + delta * (r - mean), n |-> n]

\* (long long)p.to * 100000 + p.tile_or_block
KindNo(to) == CASE to = "AoS" -> 0 [] to = "SoA" -> 1 [] to = "AoSoA" -> 2 [] to = "Matrix" -> 3
ActionKey(p) == KindNo(p.to) * 100000 + p.tile_or_block

\* the statistics kept for view v, and the one of action key k (none: BanditStat{})
BanditOf(bandit, v) == IF v \in DOMAIN bandit THEN bandit[v] ELSE NoMap
StatOf(mp, k) == IF k \in DOMAIN mp THEN mp[k] ELSE BanditStat0

\* std::log of the epochs the model reaches, in millionths
LnMicro(t) ==
  CASE t = 2 -> 693147 [] t = 3 -> 1098612 [] t = 4 -> 1386294 [] t = 5 -> 1609438
    [] t = 6 -> 1791759

\* the integer square root of x between lo and hi
RECURSIVE ISqrtIn(_, _, _)
ISqrtIn(x, lo, hi) ==
  IF lo = hi THEN lo
  ELSE LET mid == (lo + hi + 1) \div 2
       IN IF mid * mid <= x THEN ISqrtIn(x, mid, hi) ELSE ISqrtIn(x, lo, mid - 1)

\* bonus: sqrt(2 ln(max(2, t)) / n) for n > 0, else 1.0
UcbBonus(t, n) ==
  IF n > 0 THEN ISqrtIn((2 * LnMicro(Max(2, t))) \div n, 0, 4096) ELSE BanditScale

\* ucb of plan p in the statistics mp at epoch t
Ucb(mp, t, p) == StatOf(mp, ActionKey(p)).mean + UcbBonus(t, StatOf(mp, ActionKey(p)).n)

\* double best = -1e100
UcbFloor == -1000000000

\* variant: a later candidate of equal score replaces the best so far
UcbTies(ucb, best) == ucb >= best

\* if (ucb > best)
UcbBeats(ucb, best) == ucb > best

\* the loop of pick_with_ucb from candidate i on, with the best so far
RECURSIVE UcbFrom(_, _, _, _, _)
UcbFrom(C, i, mp, t, b) ==
  IF i > Len(C) THEN b
  ELSE UcbFrom(C, i + 1, mp, t,
               IF UcbBeats(Ucb(mp, t, C[i]), b.best)
               THEN [best |-> Ucb(mp, t, C[i]), bestp |-> C[i]] ELSE b)

\* pick_with_ucb over a non-empty C: explore is the outcome of the first std::rand,
\* k (1-based) that of the second; g_bandit[v] inserts the view when it is not taken
pick_with_ucb(bandit, t, v, C, explore, k) ==
  IF explore THEN [bandit |-> bandit, t |-> t + 1, plan |-> C[k]]
  ELSE [bandit |-> Put(bandit, v, BanditOf(bandit, v)), t |-> t + 1,
        plan |-> UcbFrom(C, 1, BanditOf(bandit, v), t + 1,
                         [best |-> UcbFloor, bestp |-> C[1]]).bestp]

\* bandit_update: reward = realized_us - p.est_cost_us
bandit_update(bandit, v, p, realized_us) ==
  LET reward == realized_us * BanditScale - MulDiv(p.est_cost_us, BanditScale, CostScale)
      mp == BanditOf(bandit, v)
  IN Put(bandit, v, Put(mp, ActionKey(p), BanditStatUpdate(StatOf(mp, ActionKey(p)), reward)))

\* a candidate's score priority * (gain / max(1, cost)) as the exact fraction
\*   (score_n / GainScale) / (score_d / CostScale)
Cand(v, plan, priority) ==
  [v |-> v, plan |-> plan,
   score_n |-> priority * plan.est_gain_us,
   score_d |-> Max(CostScale, plan.est_cost_us)]

\* score > 0.05
ScoreKept(c) ==
  c.score_n > 0 /\ CmpFrac(c.score_n, c.score_d, GainScale, 20 * CostScale) > 0

ScoreCmp(a, b) == CmpFrac(a.score_n, a.score_d, b.score_n, b.score_d)

\* the comparator of std::sort: higher score first, then smaller view id
\* a variant that puts the lower score first
CandBeforeAscending(a, b) ==
  IF ScoreCmp(a, b) # 0 THEN ScoreCmp(a, b) < 0 ELSE a.v < b.v

\* the comparator as written
CandBefore(a, b) ==
  IF ScoreCmp(a, b) # 0 THEN ScoreCmp(a, b) > 0 ELSE a.v < b.v

\* std::sort is not stable: every arrangement the comparator accepts can result
SortedOrders(C) ==
  {p \in Perms(1..Len(C)) :
     \A i, j \in 1..Len(C) : i < j => ~CandBefore(C[p[j]], C[p[i]])}

\* a variant that never skips
OnCooloffOff(cd) == FALSE
\* line 178: a view on cool-off is skipped
OnCooloff(cd) == cd > 0

\* a variant one frame short
CooloffShort(policy) == policy.cooloff_frames - 1
\* line 210: the cool-off a retile starts
CooloffOf(policy) == policy.cooloff_frames

\* the plan a trigger asks for (lines 182-185)
TriggerPlan(t, V, a, L) ==
  CASE t.action = "RETILE_AOSOA" -> plan_aosoa(V, a, L, t.arg)
    [] t.action = "RETILE_SOA" -> [RetilePlan0 EXCEPT !.to = "SoA"]
    [] t.action = "PACK_MATRIX" -> plan_matrix(V, a, L, t.arg)
    [] OTHER -> RetilePlan0

\* line 188: a candidate is kept when its score exceeds 0.05
KeepIfScored(c, st) == IF ScoreKept(c) THEN [st EXCEPT !.cands = Append(@, c)] ELSE st

\* trigger t of view v, r the value of its predicate (lines 181-188).  The
\* planners read g_views[v-1] without a bounds check.
TriggerEval(r, views, t, a, L, v, st) ==
  IF r.throws THEN [st EXCEPT !.throws = TRUE]
  ELSE IF ~r.val THEN st
  ELSE IF t.action \in {"RETILE_AOSOA", "PACK_MATRIX"} /\ v > Len(views)
  THEN [st EXCEPT !.oob = TRUE]
  ELSE KeepIfScored(Cand(v, TriggerPlan(t, IF v <= Len(views) THEN views[v]
                                           ELSE ViewRec(0, 0, NoCells), a, L),
                         t.priority), st)

TriggerOn(views, t, a, L, v, st) == TriggerEval(eval_pred(t.when, a), views, t, a, L, v, st)

\* one trigger of one view
ScanTrigger(views, agg, policy, L, v, k, st) ==
  TriggerOn(views, policy.triggers[k], aggregate(agg, v, 3), L, v, st)

\* the triggers of one view, in policy order (line 180)
RECURSIVE ScanTriggers(_, _, _, _, _, _, _)
ScanTriggers(views, agg, policy, L, v, k, st) ==
  IF k > Len(policy.triggers) \/ st.throws \/ st.oob THEN st
  ELSE ScanTriggers(views, agg, policy, L, v, k + 1,
                    ScanTrigger(views, agg, policy, L, v, k, st))

\* a variant that starts the cool-off of every view it looks at
ScanViewArming(views, agg, policy, L, v, st, a, cd) ==
  IF a.mean_us = 0 /\ a.p95_us = 0 THEN st
  ELSE ScanTriggers(views, agg, policy, L, v, 1,
                    [st EXCEPT !.cooldown = Put(@, v, CooloffOf(policy))])

\* one view id of the scan, a its aggregate, cd its cool-off counter (lines 177-189)
ScanViewAgg(views, agg, policy, L, v, st, a, cd) ==
  IF a.mean_us = 0 /\ a.p95_us = 0 THEN st
  ELSE IF OnCooloff(cd) THEN [st EXCEPT !.cooldown = Put(@, v, cd - 1)]
  ELSE ScanTriggers(views, agg, policy, L, v, 1, [st EXCEPT !.cooldown = Put(@, v, cd)])

ScanView(views, agg, policy, L, v, st) ==
  ScanViewAgg(views, agg, policy, L, v, st, aggregate(agg, v, 3), Get0(st.cooldown, v))

\* line 177: the scan passes over a view id whose aggregate has no latency
HasLatency(agg, v) == aggregate(agg, v, 3).mean_us # 0 \/ aggregate(agg, v, 3).p95_us # 0

\* the ids of lo..hi the scan does not pass over
SampledIn(agg, lo, hi) == {v \in lo..hi : HasLatency(agg, v)}

MinOf(S) == CHOOSE m \in S : \A u \in S : m <= u

\* from view id `first` on: that view, then the rest of the range
RECURSIVE ScanRange(_, _, _, _, _, _, _)
ScanOn(views, agg, policy, L, first, hi, st) ==
  ScanRange(views, agg, policy, L, first + 1, hi, ScanView(views, agg, policy, L, first, st))

\* the view ids lo..hi in ascending order, stopping at an exception or a read
\* outside the view table; the ids the scan passes over leave st as it is, so
\* the recursion steps from one sampled id to the next
ScanRange(views, agg, policy, L, lo, hi, st) ==
  IF st.throws \/ st.oob \/ SampledIn(agg, lo, hi) = {} THEN st
  ELSE ScanOn(views, agg, policy, L, MinOf(SampledIn(agg, lo, hi)), hi, st)

\* a variant that scans every view of the table
ScanFromAll(views, agg, policy, L, v, st) ==
  ScanRange(views, agg, policy, L, v, Len(views), st)

\* the scan over view ids 1..64 (line 175)
ScanFrom(views, agg, policy, L, v, st) ==
  ScanRange(views, agg, policy, L, v, ScanViews, st)

Scan(views, agg, policy, L, cooldown) ==
  ScanFrom(views, agg, policy, L, 1,
           [cands |-> <<>>, cooldown |-> cooldown, throws |-> FALSE, oob |-> FALSE])

\* (int)c.plan.est_cost_us: the cost in whole microseconds
CostInt(plan) == plan.est_cost_us \div CostScale

\* line 201: the budget test
Admits(used, plan) == used + CostInt(plan) <= BudgetUs

\* line 203: the baseline recorded with an applied retile
Baseline(a) == IF a.p95_us > 0 THEN a.p95_us ELSE IF a.mean_us > 0 THEN a.mean_us ELSE 0

\* line 204: the baseline is stored only when positive
PutIfPositive(m, v, x) == IF x > 0 THEN Put(m, v, x) ELSE m

\* lines 206-207: the view after the retile of candidate c
Retiled(V, c) == IF c.plan.to = "SoA" THEN retile_to_soa(V) ELSE retile(V, c.plan)

\* one candidate of the applier (lines 201-211)
ApplyOne(c, agg, policy, frame, st) ==
  IF ~Admits(st.used, c.plan) THEN [st EXCEPT !.applied = Append(@, FALSE)]
  ELSE [st EXCEPT
          !.baseline = PutIfPositive(@, c.v, Baseline(aggregate(agg, c.v, 3))),
          !.views = IF c.v <= Len(@) THEN [@ EXCEPT ![c.v] = Retiled(@, c)] ELSE @,
          !.used = @ + CostInt(c.plan),
          !.cooldown = Put(@, c.v, CooloffOf(policy)),
          !.action_frame = Put(@, c.v, frame),
          !.divzero = @ \/ (c.plan.to # "SoA" /\ DividesByZero(c.plan)),
          !.applied = Append(@, TRUE)]

\* the applier over the sorted candidates (lines 197-227)
RECURSIVE ApplyFrom(_, _, _, _, _, _)
ApplyFrom(S, i, agg, policy, frame, st) ==
  IF i > Len(S) THEN st
  ELSE ApplyFrom(S, i + 1, agg, policy, frame, ApplyOne(S[i], agg, policy, frame, st))

(* ------------------------------------------------------------------ *)
(* Scheduler: deferred learning update                                 *)
(* ------------------------------------------------------------------ *)

\* a variant that updates one frame after the action
LearnDueEarly(frame, act_frame) == frame - act_frame >= 1
\* line 233: the update waits until the frame counter is 2 past the action frame
LearnDue(frame, act_frame) == frame - act_frame >= 2

\* max(0.0, min(0.25, x))
Clamp025(x) == Max(0, Min(CoefScale \div 4, x))

\* line 240: the latency observed after the action
Obs(after, base) ==
  IF after.p95_us > 0 THEN after.p95_us ELSE IF after.mean_us > 0 THEN after.mean_us ELSE base

\* lines 254-256 with E = err/base in 1/CoefScale and D = denom * AggSig^2:
\*   lr * (err/base) * (term/denom) = (600 * E * T / D) / CoefScale
LearnApply(L, E, D, dt, mt, tt) ==
  [a_div |-> Clamp025(L.a_div + SMulDiv(E, 600 * dt, D)),
   a_mem |-> Clamp025(L.a_mem + SMulDiv(E, 600 * mt, D)),
   a_tail |-> Clamp025(L.a_tail + SMulDiv(E, 600 * tt, D))]

\* lines 243-252 with terms t = T/AggSig:
\*   denom    = 1e-6 + sum t^2            = (36 + sum T^2) / AggSig^2
\*   err/base = realized/base - sum a*t   = E / CoefScale
LearnTerms(L, base, obs, dt, mt, tt) ==
  LearnApply(L, MulDiv(Max(0, base - obs), CoefScale, base) - Predicted(L, dt, mt, tt),
             36 + dt * dt + mt * mt + tt * tt, dt, mt, tt)

\* one update of the coefficients (lines 240-256)
learn_update(L, base, after) ==
  LearnTerms(L, base, Obs(after, base), DivTerm(after), MemTerm(after), TailTerm(after))

\* the views whose update runs in this end_frame (lines 230-241)
LearnSet(agg, frame, action_frame, baseline) ==
  {v \in DOMAIN action_frame :
     /\ LearnDue(frame, action_frame[v])
     /\ v \in DOMAIN baseline
     /\ baseline[v] > 0
     /\ Obs(aggregate(agg, v, 3), baseline[v]) > 0}

\* a variant that keeps the baseline of the view
LearnOneKeeping(v, agg, st) ==
  [learn |-> learn_update(st.learn, st.baseline[v], aggregate(agg, v, 3)),
   baseline |-> st.baseline]

\* the loop over g_action_frame, in the order `order` visits the views that update
LearnOne(v, agg, st) ==
  [learn |-> learn_update(st.learn, st.baseline[v], aggregate(agg, v, 3)),
   baseline |-> Erase(st.baseline, v)]

RECURSIVE LearnFrom(_, _, _, _)
LearnFrom(order, i, agg, st) ==
  IF i > Len(order) THEN st
  ELSE LearnFrom(order, i + 1, agg, LearnOne(order[i], agg, st))

(* ------------------------------------------------------------------ *)
(* Persistence                                                         *)
(* ------------------------------------------------------------------ *)

\* the persistence file: absent, or the three keys, each present with a value or not
NoKey == [present |-> FALSE, val |-> 0]
KeyVal(x) == [present |-> TRUE, val |-> x]
NoFile == [exists |-> FALSE, a_div |-> NoKey, a_mem |-> NoKey, a_tail |-> NoKey]
File(d, m, t) == [exists |-> TRUE, a_div |-> d, a_mem |-> m, a_tail |-> t]

\* scheduler_load_state: every key found replaces the coefficient as read
scheduler_load_state(L, file) ==
  IF ~file.exists THEN L
  ELSE [a_div |-> IF file.a_div.present THEN file.a_div.val ELSE L.a_div,
        a_mem |-> IF file.a_mem.present THEN file.a_mem.val ELSE L.a_mem,
        a_tail |-> IF file.a_tail.present THEN file.a_tail.val ELSE L.a_tail]

\* the number of decimal digits of n >= 0
RECURSIVE NumDigits(_)
NumDigits(n) == IF n < 10 THEN 1 ELSE 1 + NumDigits(n \div 10)

\* operator<<(double): 6 significant digits (the stream's default precision);
\* the value as std::atof reads the text back
Print6(x) ==
  LET a == Abs(x)
      p == NumDigits(a)
      r == IF p <= 6 THEN 1 ELSE 10 ^ (p - 6)
      rounded == ((a + (r \div 2)) \div r) * r
  IN IF x < 0 THEN -rounded ELSE rounded

\* scheduler_save_state: the three keys, each printed by operator<<
scheduler_save_state(L) ==
  File(KeyVal(Print6(L.a_div)), KeyVal(Print6(L.a_mem)), KeyVal(Print6(L.a_tail)))

(* ------------------------------------------------------------------ *)
(* Observation                                                         *)
(* ------------------------------------------------------------------ *)

\* ev after an operation that is not observed.  Of an observed one it holds:
\*   end_frame        frame, cands (sorted candidates), learned (views updated)
\*   shutdown         was_inited (g_inited at the call), before (g_learn at the call)
\*   spawn, make_view arg (the archetype), size (views before the call),
\*                    ret (the id make_view returned)
\*   acquire          params (comps, rows, offset of the call), again (the call
\*                    repeats the acquire whose block was just released),
\*                    block (that block as it was released)
\*   block_write      params (of the acquire that made the block)
\*   release          params (of the acquire), block (the block as released)
\*   init, init_again after_shutdown (the call before it in this or the previous
\*                    process was shutdown), was_inited and before (of that shutdown)
NoParams == [comps |-> <<>>, rows |-> 0, offset |-> 0]

NoEv == [op |-> "other", frame |-> 0, cands |-> <<>>, learned |-> {},
         was_inited |-> FALSE, after_shutdown |-> FALSE, before |-> LearnState0,
         params |-> NoParams, block |-> MatrixBlock0, again |-> FALSE,
         arg |-> 0, ret |-> 0, size |-> 0, plan |-> RetilePlan0, count |-> 0]

\* the observation of one sorted candidate and what the applier did with it
EvCand(c, applied, h) ==
  [v |-> c.v, to |-> c.plan.to, cost |-> c.plan.est_cost_us,
   score_n |-> c.score_n, score_d |-> c.score_d, applied |-> applied,
   gap_has |-> c.v \in DOMAIN h,
   gap_n |-> IF c.v \in DOMAIN h THEN h[c.v].n ELSE 0,
   gap_k |-> IF c.v \in DOMAIN h THEN h[c.v].k ELSE 0]

\* hist after an end_frame that applied retiles to the views of A under cool-off k
HistAfter(h, A, k, frame) ==
  [v \in DOMAIN h \cup A |->
     IF v \in A THEN [k |-> k, n |-> 0, frame |-> frame]
     ELSE [h[v] EXCEPT !.n = Min(@ + 1, Max(h[v].k, 0))]]

\* snap after view v was changed other than by the transform pair
Forget(sn, v) == [u \in DOMAIN sn \ {v} |-> sn[u]]

(* ------------------------------------------------------------------ *)
(* Operations of the entity store                                      *)
(* ------------------------------------------------------------------ *)


Spawn(arch, count) ==
  /\ crashed = "no"
  /\ g_views' = spawn(g_views, arch, count)
  /\ ev' = [NoEv EXCEPT !.op = "spawn", !.arg = arch, !.size = Len(g_views),
                        !.count = count]
  /\ UNCHANGED <<pc, mb, metricVars, schedVars, lifeVars, crashed, hist, snap>>

\* spawn(arch, count, init_fn): with an init_fn the loop of lines 42-45 fills a
\* row local to spawn, once for each index, and the row is dropped at return
SpawnInit(arch, count, init_fn) ==
  /\ crashed = "no"
  /\ g_views' = spawn(g_views, arch, count)
  /\ ev' = [NoEv EXCEPT !.op = "spawn", !.arg = arch, !.size = Len(g_views),
                        !.count = count, !.again = init_fn]
  /\ UNCHANGED <<pc, mb, metricVars, schedVars, lifeVars, crashed, hist, snap>>

MakeView(arch) ==
  /\ crashed = "no"
  /\ g_views' = make_view(g_views, arch)
  /\ ev' = [NoEv EXCEPT !.op = "make_view", !.arg = arch, !.size = Len(g_views),
                        !.ret = make_view_id(g_views, arch)]
  /\ UNCHANGED <<pc, mb, metricVars, schedVars, lifeVars, crashed, hist, snap>>

\* the application stores val in row `row` of a column through the pointer column() gave it
WriteCell(v, path, row, val) ==
  /\ crashed = "no"
  /\ v \in ViewIds
  /\ path \in DOMAIN g_views[v].columns
  /\ row \in 0..(g_views[v].len - 1)
  /\ g_views' = [g_views EXCEPT ![v].columns[path] = SetCell(@, row, val)]
  /\ snap' = Forget(snap, v)
  /\ ev' = NoEv
  /\ UNCHANGED <<pc, mb, metricVars, schedVars, lifeVars, crashed, hist>>

\* acquire_matrix_block; the block goes to the application's mb
AcquireMatrixBlock(v, comps, B, offset, junk) ==
  /\ crashed = "no"
  /\ v \in ViewIds
  /\ mb' = acquire_matrix_block(g_views[v], comps, B, offset, junk)
  /\ ev' = [NoEv EXCEPT
              !.op = "acquire",
              !.params = [comps |-> comps, rows |-> B, offset |-> offset],
              !.again = /\ ev.op = "release_wb"
                        /\ ev.params = [comps |-> comps, rows |-> B, offset |-> offset],
              !.block = ev.block]
  /\ UNCHANGED <<g_views, metricVars, schedVars, lifeVars, crashed, hist, snap>>

\* the application stores val in cell n of the block it holds
BlockWrite(n, val) ==
  /\ crashed = "no"
  /\ mb.has_data
  /\ n \in DOMAIN mb.data
  /\ mb' = [mb EXCEPT !.data[n] = val]
  /\ ev' = [NoEv EXCEPT !.op = "block_write", !.params = ev.params]
  /\ UNCHANGED <<g_views, metricVars, schedVars, lifeVars, crashed, hist, snap>>

\* release_matrix_block(v, &mb, write_back); order is the iteration order of the
\* view's column map
ReleaseMatrixBlock(v, write_back, order) ==
  /\ crashed = "no"
  /\ v \in ViewIds
  /\ g_views' = [g_views EXCEPT ![v] = release_matrix_block(@, mb, write_back, order)]
  /\ mb' = MatrixBlock0
  /\ snap' = IF write_back /\ mb.has_data THEN Forget(snap, v) ELSE snap
  /\ ev' = [NoEv EXCEPT !.op = IF write_back THEN "release_wb" ELSE "release",
                        !.params = ev.params, !.block = mb]
  /\ UNCHANGED <<metricVars, schedVars, lifeVars, crashed, hist>>

\* a store operation that replaces view v by V2; divzero: it divides by zero on the
\* way, which either traps or yields the quotient 0 that V2 was computed with
StoreStep(v, V2, divzero, sn) ==
  /\ crashed = "no"
  /\ \E trap \in {b \in BOOLEAN : b => divzero} :
       IF trap
       THEN /\ crashed' = "trap"
            /\ UNCHANGED <<g_views, snap>>
       ELSE /\ g_views' = [g_views EXCEPT ![v] = V2]
            /\ snap' = sn
            /\ UNCHANGED crashed
  /\ ev' = NoEv
  /\ UNCHANGED <<pc, mb, metricVars, schedVars, lifeVars, hist>>

TransformSoAToAoSoA(v, T) ==
  /\ v \in ViewIds
  /\ StoreStep(v, transform_soa_to_aosoa(g_views[v], T), T = 0,
               [u \in DOMAIN snap \cup {v} |->
                  IF u = v THEN [stage |-> "tiled", T |-> T, len |-> g_views[v].len,
                                 columns |-> g_views[v].columns]
                  ELSE snap[u]])

TransformAoSoAToSoA(v) ==
  /\ v \in ViewIds
  /\ StoreStep(v, transform_aosoa_to_soa(g_views[v]), FALSE,
               IF v \in DOMAIN snap /\ snap[v].stage = "tiled"
               THEN [snap EXCEPT ![v].stage = "back"]
               ELSE Forget(snap, v))

Retile(v, plan) ==
  /\ v \in ViewIds
  /\ StoreStep(v, retile(g_views[v], plan), DividesByZero(plan), Forget(snap, v))

RetileToSoA(v) ==
  /\ v \in ViewIds
  /\ StoreStep(v, retile_to_soa(g_views[v]), FALSE, Forget(snap, v))

\* dynsoa_retile_aosoa_plan_apply: retile(v, plan_aosoa(v, tile))
RetileAoSoAPlanApply(v, tile) ==
  /\ v \in ViewIds
  /\ Retile(v, plan_aosoa(g_views[v], aggregate(g_agg, v, 3), g_learn, tile))

(* ------------------------------------------------------------------ *)
(* Operations of the frame loop                                        *)
(* ------------------------------------------------------------------ *)

SetPolicy(p) ==
  /\ crashed = "no"
  /\ g_policy' = p
  /\ ev' = NoEv
  /\ UNCHANGED <<pc, storeVars, metricVars, banditVars, g_cooldown, g_frame_idx, g_learn,
                 g_pre_action_baseline, g_action_frame, lifeVars, crashed, hist, snap>>

\* dynsoa_begin_frame: ++g_frame_idx
BeginFrameStep ==
  /\ crashed = "no"
  /\ g_frame_idx' = g_frame_idx + 1
  /\ ev' = NoEv
  /\ UNCHANGED <<storeVars, metricVars, banditVars, g_policy, g_cooldown, g_learn,
                 g_pre_action_baseline, g_action_frame, lifeVars, crashed, hist, snap>>

EmitMetricStep(s) ==
  /\ crashed = "no"
  /\ g_agg' = emit_metric(g_agg, s)
  /\ ev' = NoEv
  /\ UNCHANGED <<storeVars, schedVars, lifeVars, crashed, hist, snap>>

NoteFrameEndStep(v, s) ==
  /\ crashed = "no"
  /\ g_agg' = metrics_note_frame_end(g_agg, v, s)
  /\ ev' = [NoEv EXCEPT !.op = "note_frame_end"]
  /\ UNCHANGED <<storeVars, schedVars, lifeVars, crashed, hist, snap>>

RunKernelStep(name, v, us) ==
  /\ crashed = "no"
  /\ g_agg' = run_kernel(g_agg, name, v, us)
  /\ ev' = [NoEv EXCEPT !.op = "run_kernel"]
  /\ UNCHANGED <<storeVars, schedVars, lifeVars, crashed, hist, snap>>

\* a call of pick_with_ucb (no caller in the library: the function on its own)
PickWithUcb(v, C) ==
  \E explore \in BOOLEAN, k \in 1..Len(C) :
    LET r == pick_with_ucb(g_bandit, g_bandit_t, v, C, explore, IF explore THEN k ELSE 1)
    IN /\ crashed = "no"
       /\ ~explore => k = 1
       /\ g_bandit' = r.bandit
       /\ g_bandit_t' = r.t
       /\ ev' = [NoEv EXCEPT !.op = "pick", !.arg = v, !.size = g_bandit_t, !.cands = C,
                             !.again = explore, !.plan = r.plan]
       /\ UNCHANGED <<pc, storeVars, metricVars, g_policy, g_cooldown, g_frame_idx, g_learn,
                      g_pre_action_baseline, g_action_frame, lifeVars, crashed, hist, snap>>

\* a call of bandit_update (no caller in the library: the function on its own)
BanditUpdate(v, p, realized_us) ==
  /\ crashed = "no"
  /\ g_bandit' = bandit_update(g_bandit, v, p, realized_us)
  /\ ev' = [NoEv EXCEPT !.op = "bandit_update", !.arg = v, !.plan = p]
  /\ UNCHANGED <<pc, storeVars, metricVars, g_policy, g_cooldown, g_frame_idx, g_learn,
                 g_pre_action_baseline, g_action_frame, g_bandit_t, lifeVars, crashed,
                 hist, snap>>

\* end_frame ends the process: nothing it did survives
EndFrameCrash(how) ==
  /\ crashed' = how
  /\ ev' = NoEv
  /\ UNCHANGED <<storeVars, metricVars, schedVars, lifeVars, hist, snap>>

\* the views the applier retiled
AppliedViews(S, ap) == {S[i].v : i \in {j \in 1..Len(S) : ap.applied[j]}}

\* end_frame completes: S the sorted candidates, ap the applier's result, lo the
\* order of the learning updates, ln the learner's result
EndFrameDone(S, ap, lo, ln) ==
  /\ g_views' = ap.views
  /\ UNCHANGED mb
  /\ g_cooldown' = ap.cooldown
  /\ g_action_frame' = ap.action_frame
  /\ g_learn' = ln.learn
  /\ g_pre_action_baseline' = ln.baseline
  /\ ev' = [NoEv EXCEPT
              !.op = "end_frame", !.frame = g_frame_idx,
              !.cands = [i \in 1..Len(S) |-> EvCand(S[i], ap.applied[i], hist)],
              !.learned = {lo[i] : i \in 1..Len(lo)}]
  /\ hist' = HistAfter(hist, AppliedViews(S, ap), g_policy.cooloff_frames, g_frame_idx)
  /\ snap' = [u \in DOMAIN snap \ AppliedViews(S, ap) |-> snap[u]]
  /\ UNCHANGED <<metricVars, banditVars, g_policy, g_frame_idx, lifeVars, crashed>>

\* the deferred learning loop (lines 229-270); the map is unordered
EndFrameLearn(S, ap) ==
  \E lo \in Perms(LearnSet(g_agg, g_frame_idx, ap.action_frame, ap.baseline)) :
    EndFrameDone(S, ap, lo,
                 LearnFrom(lo, 1, g_agg, [learn |-> g_learn, baseline |-> ap.baseline]))

\* retile_to_soa and retile read g_views[v-1] without a bounds check (line 206-207)
AppliedOutside(S, ap) == \E i \in 1..Len(S) : ap.applied[i] /\ S[i].v > Len(g_views)

\* after the applier: a retile of a view id outside the view table ends the
\* process; a division by zero in a retile traps or goes on
EndFrameApplied(S, ap) ==
  IF AppliedOutside(S, ap) THEN EndFrameCrash("oob")
  ELSE \E trap \in {b \in BOOLEAN : b => ap.divzero} :
         IF trap THEN EndFrameCrash("trap") ELSE EndFrameLearn(S, ap)

\* the applier over the sorted candidates S (lines 197-227)
EndFrameSorted(S, cooldown) ==
  EndFrameApplied(S, ApplyFrom(S, 1, g_agg, g_policy, g_frame_idx,
                    [used |-> 0, views |-> g_views, baseline |-> g_pre_action_baseline,
                     cooldown |-> cooldown, action_frame |-> g_action_frame,
                     divzero |-> FALSE, applied |-> <<>>]))

\* after the scan (lines 192-195): an uncaught std::invalid_argument from
\* std::stod or a view id outside the view table ends the process
EndFrameScanned(sc) ==
  IF sc.throws THEN EndFrameCrash("exception")
  ELSE IF sc.oob THEN EndFrameCrash("oob")
  ELSE \E order \in SortedOrders(sc.cands) :
         EndFrameSorted([i \in 1..Len(sc.cands) |-> sc.cands[order[i]]], sc.cooldown)

\* dynsoa_end_frame: scheduler_on_end_frame (scan, sort, apply, learn), one step
EndFrameStep ==
  /\ crashed = "no"
  /\ EndFrameScanned(Scan(g_views, g_agg, g_policy, g_learn, g_cooldown))

BeginFrame == BeginFrameStep /\ UNCHANGED pc
EmitMetric(s) == EmitMetricStep(s) /\ UNCHANGED pc
NoteFrameEnd(v, s) == NoteFrameEndStep(v, s) /\ UNCHANGED pc
RunKernel(name, v, us) == RunKernelStep(name, v, us) /\ UNCHANGED pc
EndFrame == EndFrameStep /\ UNCHANGED pc

(* ------------------------------------------------------------------ *)
(* Lifecycle                                                           *)
(* ------------------------------------------------------------------ *)

\* Config{} with the defaults of types.h
Config0 ==
  [device |-> "CPU", aosoa_tile |-> 128, matrix_block |-> 1024, max_retile_us |-> 500,
   scheduler_enabled |-> FALSE]

\* a variant of the once_flag that never holds
OnceNever(once) == FALSE
\* std::call_once(g_once, ...): the body is skipped once the flag is set
OnceDone(once) == once

\* the lifecycle call before this one was dynsoa_shutdown
AfterShutdown == ev.op \in {"shutdown", "exit"}

\* dynsoa_init(cfg): has_cfg tells whether cfg is non-null; std::call_once runs
\* the body on the first call of the process only
DynsoaInit(has_cfg, cfg) ==
  /\ crashed = "no"
  /\ IF OnceDone(g_once)
     THEN UNCHANGED <<g_cfg, g_learn, g_once, g_inited>>
     ELSE /\ g_cfg' = IF has_cfg THEN cfg ELSE g_cfg
          /\ g_learn' = scheduler_load_state(g_learn, persist_file)
          /\ g_inited' = TRUE
          /\ g_once' = TRUE
  /\ ev' = [NoEv EXCEPT !.op = IF g_once THEN "init_again" ELSE "init",
                        !.after_shutdown = AfterShutdown,
                        !.was_inited = AfterShutdown /\ ev.was_inited,
                        !.before = IF AfterShutdown THEN ev.before ELSE g_learn]
  /\ UNCHANGED <<pc, storeVars, metricVars, banditVars, g_policy, g_cooldown, g_frame_idx,
                 g_pre_action_baseline, g_action_frame, persist_file, crashed, hist, snap>>

\* a variant of the test of g_inited that always holds
SavesAlways(inited) == TRUE
\* line 36: shutdown acts only when initialized
SavesWhen(inited) == inited

\* dynsoa_shutdown: saves only when initialized
DynsoaShutdown ==
  /\ crashed = "no"
  /\ IF SavesWhen(g_inited)
     THEN /\ persist_file' = scheduler_save_state(g_learn)
          /\ g_inited' = FALSE
     ELSE UNCHANGED <<persist_file, g_inited>>
  /\ ev' = [NoEv EXCEPT !.op = "shutdown", !.was_inited = g_inited, !.before = g_learn]
  /\ UNCHANGED <<pc, storeVars, metricVars, schedVars, g_cfg, g_once, crashed, hist, snap>>

(* ------------------------------------------------------------------ *)
(* Starting states                                                     *)
(* ------------------------------------------------------------------ *)

\* Policy{}: no trigger, cooloff_frames 10
Policy0 == Policy(<<>>, 10)

\* the state of a process that has built the view table `views`, installed
\* `policy` and found `file` on disk, and has not run a frame yet
StartAt(views, policy, file, at) ==
  /\ g_views = views
  /\ mb = MatrixBlock0
  /\ g_agg = NoMap
  /\ g_policy = policy
  /\ g_cooldown = NoMap
  /\ g_frame_idx = 0
  /\ g_learn = LearnState0
  /\ g_pre_action_baseline = NoMap
  /\ g_action_frame = NoMap
  /\ g_bandit = NoMap
  /\ g_bandit_t = 0
  /\ g_cfg = Config0
  /\ g_once = FALSE
  /\ g_inited = FALSE
  /\ persist_file = file
  /\ crashed = "no"
  /\ pc = at
  /\ ev = NoEv
  /\ hist = NoMap
  /\ snap = NoMap

(* ------------------------------------------------------------------ *)
(* The frame loop over one spawned view                                *)
(* ------------------------------------------------------------------ *)

MaxFrames == 2
MaxSamples == 2
MaxCooloff == 2

\* the always-true trigger of dynsoa_set_policy, with cool-off k
DemoPolicy(k) == Policy(<<PolicyTrigger("mean_us >= 0", "RETILE_AOSOA", 128, 1)>>, k)

Policies == {DemoPolicy(k) : k \in 0..MaxCooloff}

\* a kernel sample as run_kernel emits it, and one carrying divergence
Start(views, policy, file) == StartAt(views, policy, file, "any")

Calm(v) == Sample(v, 1000)
Hot(v) == [Sample(v, 400) EXCEPT !.branch_div = SigScale \div 2]

ApiTiles == {-1, 0}
ApiPlans == {[RetilePlan0 EXCEPT !.to = k] : k \in {"AoS", "SoA", "Matrix"}}
            \cup {[RetilePlan0 EXCEPT !.to = "AoSoA", !.tile_or_block = t] : t \in ApiTiles}

Init == Start(spawn(<<>>, 1, 3), Policy0, NoFile)

\* the bounds of the model on the frame counter and on the window of a view
FrameLeft == g_frame_idx < MaxFrames
RoomFor(s) == Len(Window(g_agg, s.view)) < MaxSamples

Next ==
  \/ \E p \in Policies : SetPolicy(p)
  \/ FrameLeft /\ BeginFrame
  \/ \E s \in {Calm(1), Hot(1)} : RoomFor(s) /\ EmitMetric(s)
  \/ EndFrame
  \/ \E v \in ViewIds, plan \in ApiPlans : Retile(v, plan)
  \/ \E v \in ViewIds, t \in ApiTiles : RetileAoSoAPlanApply(v, t)
  \/ \E v \in ViewIds : RetileToSoA(v)

Spec == Init /\ [][Next]_vars

(* ------------------------------------------------------------------ *)
(* The entity store on its own                                         *)
(* ------------------------------------------------------------------ *)

MaxViews == 1
MaxLen == 3
MaxTile == 2

Archetypes == {1, 2}
StoreTiles == (-1)..MaxTile

InitStore == Start(<<>>, Policy0, NoFile)

ViewsLeft == Len(g_views) < MaxViews

NextStore ==
  \/ \E c \in 0..MaxLen : ViewsLeft /\ Spawn(1, c)
  \/ \E a \in Archetypes : Len(make_view(g_views, a)) <= MaxViews /\ MakeView(a)
  \/ \E v \in ViewIds, row \in 0..(MaxLen - 1) : WriteCell(v, "Position.x", row, 1)
  \/ \E v \in ViewIds, row \in 0..(MaxLen - 1) : WriteCell(v, "Position.x", row, 0)
  \/ \E v \in ViewIds, T \in StoreTiles : TransformSoAToAoSoA(v, T)
  \/ \E v \in ViewIds : TransformAoSoAToSoA(v)

SpecStore == InitStore /\ [][NextStore]_vars

(* ------------------------------------------------------------------ *)
(* One end_frame over two large views: the budget                      *)
(* ------------------------------------------------------------------ *)

BudgetSamples == 1

\* 24 bytes an entity: est_cost_us is 100000.9 for the first count, 150000 for the second
BigCounts == {17066820, 25600000}

\* priorities high enough for the score of a large view to pass 0.05
BudgetPolicies ==
  {Policy(<<PolicyTrigger("mean_us >= 0", "RETILE_AOSOA", 128, 1000)>>, 1),
   Policy(<<PolicyTrigger("mean_us >= 0", "RETILE_AOSOA", 128, 2000),
            PolicyTrigger("mean_us >= 0", "RETILE_AOSOA", 64, 1000)>>, 1)}

\* a slow, divergent kernel: its estimated gain is 84 us
Spiky(v) == [Sample(v, 4000) EXCEPT !.branch_div = SigScale \div 2]

\* and a view small enough for any number of retiles to fit the budget
BudgetCounts == BigCounts \cup {3}

InitBudget ==
  \E c1 \in BudgetCounts, c2 \in BudgetCounts, p \in BudgetPolicies :
    Start(spawn(spawn(<<>>, 1, c1), 1, c2), p, NoFile)

BudgetRoomFor(s) == Len(Window(g_agg, s.view)) < BudgetSamples

NextBudget ==
  \/ \E v \in ViewIds : BudgetRoomFor(Calm(v)) /\ EmitMetric(Calm(v))
  \/ \E v \in ViewIds : BudgetRoomFor(Spiky(v)) /\ EmitMetric(Spiky(v))
  \/ EndFrame

SpecBudget == InitBudget /\ [][NextBudget]_vars

(* ------------------------------------------------------------------ *)
(* Lifecycle around the frame loop                                     *)
(* ------------------------------------------------------------------ *)

\* the persistence file found at start: none, one a shutdown wrote, one edited by hand
Files == {NoFile,
          File(KeyVal(CoefScale \div 8), KeyVal(CoefScale \div 20), KeyVal(0)),
          File(KeyVal(5 * CoefScale), KeyVal(CoefScale \div 10), NoKey)}

\* the configurations handed to dynsoa_init
Configs == {Config0, [Config0 EXCEPT !.aosoa_tile = 64]}

InitLife == \E f \in Files : Start(spawn(<<>>, 1, 3), DemoPolicy(2), f)

\* After dynsoa_shutdown the process ends and the program is started again: every
\* global has its initial value, the same views and policy are set up, and the
\* persistence file is what the old process left.  The second process makes
\* lifecycle calls only.
ExitAndStart ==
  /\ crashed = "no"
  /\ ev.op = "shutdown"
  /\ pc = "any"
  /\ pc' = "second"
  /\ g_agg' = NoMap
  /\ g_views' = spawn(<<>>, 1, 3)
  /\ mb' = MatrixBlock0
  /\ g_policy' = DemoPolicy(2)
  /\ g_cooldown' = NoMap
  /\ g_frame_idx' = 0
  /\ g_learn' = LearnState0
  /\ g_pre_action_baseline' = NoMap
  /\ g_action_frame' = NoMap
  /\ g_bandit' = NoMap
  /\ g_bandit_t' = 0
  /\ g_cfg' = Config0
  /\ g_once' = FALSE
  /\ g_inited' = FALSE
  /\ ev' = [ev EXCEPT !.op = "exit"]
  /\ hist' = NoMap
  /\ snap' = NoMap
  /\ UNCHANGED <<persist_file, crashed>>

FirstRun == pc = "any"

NextLife ==
  \/ \E h \in BOOLEAN, c \in Configs : DynsoaInit(h, c)
  \/ DynsoaShutdown
  \/ ExitAndStart
  \/ FirstRun /\ FrameLeft /\ BeginFrame
  \/ \E s \in {Calm(1), Hot(1)} : FirstRun /\ RoomFor(s) /\ EmitMetric(s)
  \/ FirstRun /\ EndFrame

SpecLife == InitLife /\ [][NextLife]_vars

(* ------------------------------------------------------------------ *)
(* The driven frame loop: begin_frame, one sample, end_frame           *)
(* ------------------------------------------------------------------ *)

SmokeFrames == 10

\* entity counts on both sides of 102400, where est_cost_us reaches 600
SmokeCounts == {0, 1, 1000, 102399, 102400, 250000}

InitSmoke == \E c \in SmokeCounts : Start(spawn(<<>>, 1, c), DemoPolicy(3), NoFile)

DriveBegin(more) ==
  /\ pc \in {"any", "begin"}
  /\ more
  /\ BeginFrameStep
  /\ pc' = "emit"

DriveEmit ==
  /\ pc = "emit"
  /\ EmitMetricStep(Calm(1))
  /\ pc' = "end"

DriveEnd ==
  /\ pc = "end"
  /\ EndFrameStep
  /\ pc' = "begin"

NextSmoke ==
  \/ DriveBegin(g_frame_idx < SmokeFrames)
  \/ DriveEmit
  \/ DriveEnd

SpecSmoke == InitSmoke /\ [][NextSmoke]_vars

(* ------------------------------------------------------------------ *)
(* The frame loop run for ever                                         *)
(* ------------------------------------------------------------------ *)

\* The scheduler reads g_frame_idx only in g_frame_idx - act_frame < 2 (line 233).
\* Once the counter has reached LiveHorizon a further begin_frame is modelled by
\* moving every recorded action frame one down instead, not below 0: every
\* difference grows by one as in the code, and stops growing at LiveHorizon >= 2.
LiveHorizon == 4

Rebased(m) == [v \in DOMAIN m |-> Max(m[v] - 1, 0)]

LiveBeginStep ==
  IF g_frame_idx < LiveHorizon THEN BeginFrameStep
  ELSE /\ crashed = "no"
       /\ g_action_frame' = Rebased(g_action_frame)
       /\ hist' = [v \in DOMAIN hist |-> [hist[v] EXCEPT !.frame = Max(@ - 1, 0)]]
       /\ ev' = NoEv
       /\ UNCHANGED <<storeVars, metricVars, banditVars, g_policy, g_cooldown, g_frame_idx, g_learn,
                      g_pre_action_baseline, lifeVars, crashed, snap>>

LiveBegin ==
  /\ pc \in {"any", "begin"}
  /\ LiveBeginStep
  /\ pc' = "emit"

InitLive == \E k \in 0..MaxCooloff : Start(spawn(<<>>, 1, 3), DemoPolicy(k), NoFile)

NextLive ==
  \/ LiveBegin
  \/ DriveEmit
  \/ DriveEnd

\* the driving program moves on to its next call; every step of NextLive is such
\* a move, and one is possible in every state in which the process is alive
DriverMoves ==
  /\ crashed = "no"
  /\ pc' = (CASE pc = "emit" -> "end" [] pc = "end" -> "begin" [] OTHER -> "emit")

\* the application keeps calling: the next call is not postponed for ever
SpecLive == InitLive /\ [][NextLive]_vars /\ WF_pc(DriverMoves)

(* ------------------------------------------------------------------ *)
(* The window of a view over more than 120 samples                     *)
(* ------------------------------------------------------------------ *)

MaxEmits == 122

\* view 1 gets up to MaxEmits samples, view 2 (never spawned) up to MaxSamples
WindowViews == {1, 2}

\* the n-th sample for a view carries the n-th kernel name; every kernel takes 1000 us
KernelName(n) == ToString(n)
Stamped(v, n) == KernelSample(KernelName(n), v, 1000)

\* pc[v] is the number of samples emitted for view v so far
InitWindow == StartAt(spawn(<<>>, 1, 3), Policy0, NoFile, [v \in WindowViews |-> 0])

EmitLeft(v) == pc[v] < (IF v = 1 THEN MaxEmits ELSE MaxSamples)
Counted(v) == pc' = [pc EXCEPT ![v] = @ + 1]

NextWindow ==
  \/ \E v \in WindowViews : EmitLeft(v) /\ EmitMetricStep(Stamped(v, pc[v] + 1)) /\ Counted(v)
  \/ \E v \in WindowViews : EmitLeft(v) /\ RunKernelStep(KernelName(pc[v] + 1), v, 1000) /\ Counted(v)

SpecWindow == InitWindow /\ [][NextWindow]_vars

(* ------------------------------------------------------------------ *)
(* Aggregates and EWMA of short windows                                *)
(* ------------------------------------------------------------------ *)

MetricSamples == 3
MaxWindowFrames == 4

\* a sample with every signal set, and one with a p99 but no p95
Tiled(v) ==
  [Sample(v, 700) EXCEPT !.warp_eff = SigScale \div 2, !.mem_coalesce = SigScale \div 4,
                         !.l2_miss_rate = SigScale \div 10,
                         !.p95_tile_us = 20, !.p99_tile_us = 30]
Flat(v) == [Sample(v, 100) EXCEPT !.p99_tile_us = 50]

InitMetrics == Start(spawn(<<>>, 1, 3), Policy0, NoFile)

MetricRoomFor(v) == Len(Window(g_agg, v)) < MetricSamples
\* every EWMA field is a multiple of 5 units: the next lerp is exact
LerpExact(E) ==
  \A x \in {E.mean_us, E.p95_us, E.p99_us, E.warp_eff, E.branch_div,
            E.mem_coalesce, E.l2_miss} : x % 5 = 0

NextMetrics ==
  \/ \E s \in {Calm(1), Hot(1), Tiled(1), Flat(1)} : MetricRoomFor(1) /\ EmitMetric(s)
  \/ \E s \in {Tiled(1), Flat(1)} : LerpExact(EwmaOf(g_agg, 1)) /\ NoteFrameEnd(1, s)
  \/ LerpExact(EwmaOf(g_agg, 2)) /\ NoteFrameEnd(2, Flat(2))
  \/ MetricRoomFor(1) /\ LerpExact(EwmaOf(g_agg, 1)) /\ RunKernel("k", 1, 500)

SpecMetrics == InitMetrics /\ [][NextMetrics]_vars

(* ------------------------------------------------------------------ *)
(* The view table under spawn and make_view                            *)
(* ------------------------------------------------------------------ *)

MaxIds == 3

\* archetype ids as define_archetype hands them out, and one never spawned
ViewArchetypes == {1, 2, 3}

InitViews == Start(<<>>, Policy0, NoFile)

IdsLeft == Len(g_views) < MaxIds

NextViews ==
  \/ \E a \in {1, 2}, c \in {0, 2}, init_fn \in BOOLEAN : IdsLeft /\ SpawnInit(a, c, init_fn)
  \/ \E a \in ViewArchetypes : Len(make_view(g_views, a)) <= MaxIds /\ MakeView(a)

SpecViews == InitViews /\ [][NextViews]_vars

(* ------------------------------------------------------------------ *)
(* Trigger predicates over the aggregate of one view                   *)
(* ------------------------------------------------------------------ *)

PredSamples == 2

\* well-formed atoms: the text of the policy file, and what it says
PredAtoms ==
  {[text |-> "branch_div > 0.2", field |-> "branch_div", op |-> ">", m |-> 2, d |-> 10],
   [text |-> "mem_coalesce < 0.7", field |-> "mem_coalesce", op |-> "<", m |-> 7, d |-> 10],
   [text |-> "foo == 0", field |-> "foo", op |-> "==", m |-> 0, d |-> 1],
   [text |-> "mean_us>=1000", field |-> "mean_us", op |-> ">=", m |-> 1000, d |-> 1],
   [text |-> " warp_eff <= 0.95 ", field |-> "warp_eff", op |-> "<=", m |-> 95, d |-> 100]}

\* texts that are no predicate: no operator, nothing at all, a right-hand side
\* that is no number
Unparseable == {"mean_us", "", "mean_us > fast"}

PredTexts ==
  {A.text : A \in PredAtoms} \cup Unparseable
    \cup {A.text \o " && " \o B.text : A \in PredAtoms, B \in PredAtoms}
    \cup {A.text \o " || " \o B.text : A \in PredAtoms, B \in PredAtoms}

\* a policy of one trigger on the predicate
PredPolicy(when) == Policy(<<PolicyTrigger(when, "RETILE_AOSOA", 128, 1)>>, 0)

\* kernel samples of divergence bd and coalescing mc, in hundredths
Diverging(v, bd, mc) == [Sample(v, 1000) EXCEPT !.branch_div = bd, !.mem_coalesce = mc]

InitPred == \E A \in PredTexts : Start(spawn(<<>>, 1, 3), PredPolicy(A), NoFile)

PredRoomFor(s) == Len(Window(g_agg, s.view)) < PredSamples

NextPred ==
  \/ \E s \in {Diverging(1, 30, 10), Diverging(1, 10, 10), Sample(1, 400)} :
       PredRoomFor(s) /\ EmitMetric(s)
  \/ EndFrame

SpecPred == InitPred /\ [][NextPred]_vars

(* ------------------------------------------------------------------ *)
(* The bandit on its own                                               *)
(* ------------------------------------------------------------------ *)

MaxPulls == 2
MaxEpoch == 3

\* three arms of the catalog, each costing 1 us; the third is never tried
Arm(to, tile) == [to |-> to, tile_or_block |-> tile, est_cost_us |-> CostScale, est_gain_us |-> 0]
Arms == <<Arm("AoSoA", 64), Arm("AoSoA", 128), Arm("Matrix", 64)>>

\* candidate lists: two or three arms in any order, and a list naming one arm twice
CandLists ==
  {<<Arms[i], Arms[j]>> : i \in 1..3, j \in 1..3}
    \cup {<<Arms[f[1]], Arms[f[2]], Arms[f[3]]>> : f \in Perms(1..3)}

RealizedUs == {1, 3}

InitBandit == Start(<<>>, Policy0, NoFile)

PullsLeft(v, p) == StatOf(BanditOf(g_bandit, v), ActionKey(p)).n < MaxPulls

NextBandit ==
  \/ \E C \in CandLists : g_bandit_t < MaxEpoch /\ PickWithUcb(1, C)
  \/ \E i \in 1..2, r \in RealizedUs : PullsLeft(1, Arms[i]) /\ BanditUpdate(1, Arms[i], r)

SpecBandit == InitBandit /\ [][NextBandit]_vars

(* ------------------------------------------------------------------ *)
(* The metrics tables under two threads                                *)
(* ------------------------------------------------------------------ *)

\* the thread that owns the runtime, and a kernel thread of the caller
Threads == {"main", "worker"}

RaceSamples == 2
RaceNotes == 1

\* pc of this scenario: mu the owner of g_mu or "free"; at[th] where thread th is:
\* "idle", in emit_metric ("emit_locked", "emit_written"), in aggregate or in
\* metrics_note_frame_end; arg[th] the sample it was called with; raced whether an
\* access made without g_mu has overlapped an emit_metric between lock and unlock;
\* notes the calls of metrics_note_frame_end so far
Threads0 ==
  [mu |-> "free", at |-> [th \in Threads |-> "idle"],
   arg |-> [th \in Threads |-> Sample(1, 0)], raced |-> FALSE, notes |-> 0]

\* the thread reads or writes g_agg
Accessing(th) == pc.at[th] # "idle"
Unlocked(p) == p.at["main"] \in {"aggregate", "note"}
Overlap(p) == Unlocked(p) /\ p.at["worker"] # "idle"
Moved(p) == [p EXCEPT !.raced = @ \/ Overlap(p)]

ThreadStep(p) ==
  /\ crashed = "no"
  /\ pc' = Moved(p)

\* emit_metric, line 43: std::lock_guard lk(g_mu) acquired
EmitLock(th, s) ==
  /\ pc.at[th] = "idle"
  /\ pc.mu = "free"
  /\ ThreadStep([pc EXCEPT !.mu = th, !.at[th] = "emit_locked", !.arg[th] = s])
  /\ ev' = NoEv
  /\ UNCHANGED <<storeVars, metricVars, schedVars, lifeVars, crashed, hist, snap>>

\* emit_metric, lines 44-51: the row, push_back and pop_front
EmitWrite(th) ==
  /\ pc.at[th] = "emit_locked"
  /\ ThreadStep([pc EXCEPT !.at[th] = "emit_written"])
  /\ g_agg' = emit_metric(g_agg, pc.arg[th])
  /\ ev' = NoEv
  /\ UNCHANGED <<storeVars, schedVars, lifeVars, crashed, hist, snap>>

\* emit_metric, line 52: lk released
EmitUnlock(th) ==
  /\ pc.at[th] = "emit_written"
  /\ ThreadStep([pc EXCEPT !.mu = "free", !.at[th] = "idle"])
  /\ ev' = NoEv
  /\ UNCHANGED <<storeVars, metricVars, schedVars, lifeVars, crashed, hist, snap>>

\* aggregate, lines 68-72: the table and the window looked up, no lock taken
AggregateBegin(v) ==
  /\ pc.at["main"] = "idle"
  /\ ThreadStep([pc EXCEPT !.at["main"] = "aggregate", !.arg["main"] = Sample(v, 0),
                           !.raced = FALSE])
  /\ ev' = NoEv
  /\ UNCHANGED <<storeVars, metricVars, schedVars, lifeVars, crashed, hist, snap>>

\* an access that raced with a write has no defined outcome: it returns, or the
\* process ends
RaceOutcome(how) ==
  /\ how \in {"return", "race"}
  /\ how = "race" => pc.raced
  /\ crashed = "no"
  /\ crashed' = IF how = "race" THEN "race" ELSE "no"

\* aggregate, lines 73-91: the window read and the result returned
AggregateEnd ==
  /\ pc.at["main"] = "aggregate"
  /\ \E how \in {"return", "race"} : RaceOutcome(how)
  /\ pc' = [pc EXCEPT !.at["main"] = "idle"]
  /\ ev' = [NoEv EXCEPT !.op = "aggregate", !.arg = pc.arg["main"].view, !.again = pc.raced]
  /\ UNCHANGED <<storeVars, metricVars, schedVars, lifeVars, hist, snap>>

\* metrics_note_frame_end, line 55: g_agg[v] looked up or inserted, no lock taken
NoteBegin(v, s) ==
  /\ pc.at["main"] = "idle"
  /\ ThreadStep([pc EXCEPT !.at["main"] = "note", !.arg["main"] = s, !.raced = FALSE,
                           !.notes = @ + 1])
  /\ ev' = NoEv
  /\ UNCHANGED <<storeVars, metricVars, schedVars, lifeVars, crashed, hist, snap>>

\* metrics_note_frame_end, lines 56-66: the ewma written; after a race the write
\* may be lost
NoteEnd ==
  /\ pc.at["main"] = "note"
  /\ \E how \in {"return", "race"} : RaceOutcome(how)
  /\ \E lost \in {b \in BOOLEAN : b => pc.raced} :
       g_agg' = IF lost THEN g_agg
                ELSE metrics_note_frame_end(g_agg, pc.arg["main"].view, pc.arg["main"])
  /\ pc' = [pc EXCEPT !.at["main"] = "idle"]
  /\ ev' = [NoEv EXCEPT !.op = "note_frame_end", !.arg = pc.arg["main"].view,
                        !.again = pc.raced]
  /\ UNCHANGED <<storeVars, schedVars, lifeVars, hist, snap>>

InitThreads == StartAt(spawn(<<>>, 1, 3), Policy0, NoFile, Threads0)

RaceRoom == Len(Window(g_agg, 1)) < RaceSamples

NextThreads ==
  \/ \E th \in Threads, s \in {Calm(1), Hot(1)} : RaceRoom /\ EmitLock(th, s)
  \/ \E th \in Threads : EmitWrite(th)
  \/ \E th \in Threads : EmitUnlock(th)
  \/ AggregateBegin(1)
  \/ AggregateEnd
  \/ \E s \in {Calm(1), Hot(1)} : pc.notes < RaceNotes /\ NoteBegin(1, s)
  \/ NoteEnd

SpecThreads == InitThreads /\ [][NextThreads]_vars

(* ------------------------------------------------------------------ *)
(* A policy that asks for SoA                                          *)
(* ------------------------------------------------------------------ *)

SoaSamples == 2
SoaFrames == 2

\* one trigger that always holds and asks for RETILE_SOA, at two priorities
SoaPolicies ==
  {Policy(<<PolicyTrigger("mean_us >= 0", "RETILE_SOA", 0, pr)>>, 0) : pr \in {1, 1000}}

InitSoa == \E p \in SoaPolicies : Start(spawn(<<>>, 1, 3), p, NoFile)

SoaRoomFor(s) == Len(Window(g_agg, s.view)) < SoaSamples

NextSoa ==
  \/ g_frame_idx < SoaFrames /\ BeginFrame
  \/ \E s \in {Calm(1), Spiky(1)} : SoaRoomFor(s) /\ EmitMetric(s)
  \/ \E T \in {2, 3} : TransformSoAToAoSoA(1, T)
  \/ EndFrame

SpecSoa == InitSoa /\ [][NextSoa]_vars

(* ------------------------------------------------------------------ *)
(* The planner on its own                                              *)
(* ------------------------------------------------------------------ *)

PlanSamples == 3

\* a cheap kernel, and one whose slowest tiles take twenty times the p95
Quick(v) == Sample(v, 50)
LongTail(v) == [Sample(v, 900) EXCEPT !.p95_tile_us = 200, !.p99_tile_us = 4000]

\* a call of plan_aosoa(v, tile) by the application: it changes nothing
PlanAoSoA(v, tile) ==
  /\ crashed = "no"
  /\ v \in ViewIds
  /\ ev' = [NoEv EXCEPT !.op = "plan_aosoa", !.arg = v,
                        !.plan = plan_aosoa(g_views[v], aggregate(g_agg, v, 3), g_learn, tile)]
  /\ UNCHANGED <<pc, storeVars, metricVars, schedVars, lifeVars, crashed, hist, snap>>

InitPlan == Start(spawn(<<>>, 1, 3), Policy0, NoFile)

PlanRoomFor(v) == Len(Window(g_agg, v)) < PlanSamples

NextPlan ==
  \/ \E s \in {Calm(1), Quick(1), Tiled(1), LongTail(1)} : PlanRoomFor(1) /\ EmitMetric(s)
  \/ PlanAoSoA(1, 64)

SpecPlan == InitPlan /\ [][NextPlan]_vars

(* ------------------------------------------------------------------ *)
(* Samples for view ids that were never created                        *)
(* ------------------------------------------------------------------ *)

StrayViews == 2
StraySamples == 1
StrayFrames == 1

\* an always-true trigger for each action kind
StrayPolicies ==
  {Policy(<<PolicyTrigger("mean_us >= 0", a, 64, 1)>>, 0) :
     a \in {"RETILE_AOSOA", "RETILE_SOA", "PACK_MATRIX"}}

InitStray == \E p \in StrayPolicies : Start(<<>>, p, NoFile)

StrayRoomFor(v) == Len(Window(g_agg, v)) < StraySamples

\* the view table grows by spawn and make_view; samples name any id up to one
\* past the largest the table can hold
NextStray ==
  \/ Len(g_views) < StrayViews /\ Spawn(1, 3)
  \/ \E a \in {1, 2} : Len(make_view(g_views, a)) <= StrayViews /\ MakeView(a)
  \/ \E v \in 1..(StrayViews + 1) : StrayRoomFor(v) /\ EmitMetric(Calm(v))
  \/ \E v \in 1..(StrayViews + 1) : StrayRoomFor(v) /\ RunKernel("k", v, 500)
  \/ g_frame_idx < StrayFrames /\ BeginFrame
  \/ EndFrame

SpecStray == InitStray /\ [][NextStray]_vars

(* ------------------------------------------------------------------ *)
(* A policy that asks for PACK_MATRIX                                  *)
(* ------------------------------------------------------------------ *)

PackSamples == 1
PackFrames == 2

\* one trigger that always holds and asks for PACK_MATRIX with block 64
PackPolicies ==
  {Policy(<<PolicyTrigger("mean_us >= 0", "PACK_MATRIX", 64, 1)>>, k) : k \in {0, 1}}

\* the plans with target Matrix the application passes to retile itself
MatrixPlans == {[RetilePlan0 EXCEPT !.to = "Matrix", !.tile_or_block = b] : b \in {0, 64}}

InitPack == \E p \in PackPolicies : Start(spawn(<<>>, 1, 3), p, NoFile)

PackRoomFor(s) == Len(Window(g_agg, s.view)) < PackSamples

NextPack ==
  \/ g_frame_idx < PackFrames /\ BeginFrame
  \/ \E s \in {Calm(1), Spiky(1)} : PackRoomFor(s) /\ EmitMetric(s)
  \/ \E row \in 0..1 : g_views[1].columns["Position.x"].cells = NoCells
                         /\ WriteCell(1, "Position.x", row, 1)
  \/ TransformSoAToAoSoA(1, 2)
  \/ \E plan \in MatrixPlans : Retile(1, plan)
  \/ EndFrame

SpecPack == InitPack /\ [][NextPack]_vars

(* ------------------------------------------------------------------ *)
(* More views than the scan visits                                     *)
(* ------------------------------------------------------------------ *)

ManyViews == 65
ManySamples == 1
ManyFrames == 2

\* n views of one entity each, spawned one after the other
RECURSIVE SpawnMany(_)
SpawnMany(n) == IF n = 0 THEN <<>> ELSE spawn(SpawnMany(n - 1), 1, 1)

\* the views on both sides of the end of the scan
EdgeViews == {v \in 1..ManyViews : v >= ScanViews}

InitMany == \E k \in {0, 1} : Start(SpawnMany(ManyViews), DemoPolicy(k), NoFile)

ManyRoomFor(s) == Len(Window(g_agg, s.view)) < ManySamples

NextMany ==
  \/ g_frame_idx < ManyFrames /\ BeginFrame
  \/ \E v \in EdgeViews : \E s \in {Calm(v), Spiky(v)} : ManyRoomFor(s) /\ EmitMetric(s)
  \/ EndFrame

SpecMany == InitMany /\ [][NextMany]_vars

(* ------------------------------------------------------------------ *)
(* Matrix blocks of one view                                           *)
(* ------------------------------------------------------------------ *)

BlockLen == 2
MaxRows == 2
MaxCols == 2
MaxAcquires == 2

\* what malloc may have left in a cell
Garbage == {0, 7}

\* the order in which spawn inserts the columns
InsertionOrder == <<"Position.x", "Position.y", "Position.z",
                    "Velocity.vx", "Velocity.vy", "Velocity.vz">>
ColumnNo(p) == CHOOSE k \in 1..Len(InsertionOrder) : InsertionOrder[k] = p

\* init_entities: every cell of the view gets a value of its own
Seeded(V) ==
  [V EXCEPT !.columns =
     [p \in DOMAIN V.columns |->
        [V.columns[p] EXCEPT !.cells = [r \in 0..(V.len - 1) |-> 10 * ColumnNo(p) + r + 1]]]]

\* the component lists passed to acquire: two columns of the view and an unknown path
BlockPaths == {"Position.x", "Velocity.vx", "Mass.m"}
BlockComps == UNION {[1..K -> BlockPaths] : K \in 1..MaxCols}

\* the first MaxCols columns of every iteration order of the view's column map
IterationOrders(V) ==
  {o \in [1..Min(MaxCols, Cardinality(DOMAIN V.columns)) -> DOMAIN V.columns] :
     \A a, b \in DOMAIN o : a # b => o[a] # o[b]}

\* the value the application writes into cell n of a block
Mark(n) == 90 + n

\* pc counts the acquires made so far
InitBlock == StartAt(<<Seeded(spawn(<<>>, 1, BlockLen)[1])>>, Policy0, NoFile, 0)

\* the application acquires, writes, releases, and acquires again with the same
\* parameters
Repeats(comps, B, offset) ==
  pc > 0 => /\ ev.op \in {"release", "release_wb"}
            /\ ev.params = [comps |-> comps, rows |-> B, offset |-> offset]
Holding == pc < MaxAcquires /\ mb.has_data

NextBlock ==
  \/ \E comps \in BlockComps, B \in 1..MaxRows, offset \in 0..(BlockLen - 1) :
       \E junk \in [1..(B * Len(comps)) -> Garbage] :
         /\ pc < MaxAcquires
         /\ ~mb.has_data
         /\ Repeats(comps, B, offset)
         /\ AcquireMatrixBlock(1, comps, B, offset, junk)
         /\ pc' = pc + 1
  \/ \E n \in DOMAIN mb.data :
       Holding /\ mb.data[n] # Mark(n) /\ BlockWrite(n, Mark(n)) /\ UNCHANGED pc
  \/ \E write_back \in BOOLEAN, order \in IterationOrders(g_views[1]) :
       Holding /\ ReleaseMatrixBlock(1, write_back, order) /\ UNCHANGED pc

SpecBlock == InitBlock /\ [][NextBlock]_vars

(* ------------------------------------------------------------------ *)
(* One block, released twice                                           *)
(* ------------------------------------------------------------------ *)

ReleaseRows == 2

\* the component lists of the one acquire: a column of the view, a column and an
\* unknown path, and the same in the other order
ReleaseComps == {<<"Position.x">>, <<"Velocity.vx", "Mass.m">>, <<"Mass.m", "Position.x">>}

\* pc: 0 before the acquire, 1 while the block is held, 2 and 3 after the first
\* and the second release of the same MatrixBlock object.  The second release
\* finds data null and never iterates the column map, so one order stands for all.
NextRelease ==
  \/ \E comps \in ReleaseComps, B \in 1..ReleaseRows, offset \in 0..(BlockLen - 1) :
       \E junk \in [1..(B * Len(comps)) -> Garbage] :
         /\ pc = 0
         /\ AcquireMatrixBlock(1, comps, B, offset, junk)
         /\ pc' = 1
  \/ \E n \in DOMAIN mb.data :
       pc = 1 /\ mb.data[n] # Mark(n) /\ BlockWrite(n, Mark(n)) /\ UNCHANGED pc
  \/ \E write_back \in BOOLEAN, order \in IterationOrders(g_views[1]) :
       pc = 1 /\ ReleaseMatrixBlock(1, write_back, order) /\ pc' = 2
  \/ \E write_back \in BOOLEAN :
       pc = 2 /\ ReleaseMatrixBlock(1, write_back, InsertionOrder) /\ pc' = 3

SpecRelease == InitBlock /\ [][NextRelease]_vars

(* ------------------------------------------------------------------ *)
(* Properties                                                          *)
(* ------------------------------------------------------------------ *)

AtEndFrame == ev.op = "end_frame"
CandIdx == 1..Len(ev.cands)
AppliedTo(v) == AtEndFrame /\ \E i \in CandIdx : ev.cands[i].v = v /\ ev.cands[i].applied
LearnedFor(v) == AtEndFrame /\ v \in ev.learned

\* C1: when end_frame applies a retile to a view that it retiled before under
\* cool-off k, at least k end_frame invocations that applied nothing to the view
\* lie in between: none of the k invocations after a retile applies one.
C1_CooloffKeepsRetilesApart ==
  AtEndFrame =>
    \A i \in CandIdx :
      (ev.cands[i].applied /\ ev.cands[i].gap_has) => ev.cands[i].gap_n >= ev.cands[i].gap_k

C1_Witness ==
  /\ AtEndFrame
  /\ \E i \in CandIdx :
       /\ ev.cands[i].applied
       /\ ev.cands[i].gap_has
       /\ ev.cands[i].gap_k = MaxCooloff
       /\ ev.cands[i].gap_n = MaxCooloff

AppliedCost ==
  SumOver([i \in CandIdx |-> IF ev.cands[i].applied THEN ev.cands[i].cost ELSE 0], CandIdx)

\* C3 (as stated): the est_cost_us of the retiles applied in one end_frame sum
\* to at most 200000 us.
C3_AppliedCostWithinBudget ==
  AtEndFrame => AppliedCost <= BudgetUs * CostScale

\* C4: the candidates of one end_frame are taken in descending score order, equal
\* scores by ascending view id; and when there are several candidates, each of
\* est_cost_us = 150000, the first of that order is applied and no other.
C4_OrderedAndOnlyBestOf150000 ==
  AtEndFrame =>
    /\ \A i, j \in CandIdx :
         i < j => \/ CmpFrac(ev.cands[i].score_n, ev.cands[i].score_d,
                             ev.cands[j].score_n, ev.cands[j].score_d) > 0
                  \/ /\ CmpFrac(ev.cands[i].score_n, ev.cands[i].score_d,
                                ev.cands[j].score_n, ev.cands[j].score_d) = 0
                     /\ ev.cands[i].v <= ev.cands[j].v
    /\ (Len(ev.cands) >= 2 /\ \A i \in CandIdx : ev.cands[i].cost = 150000 * CostScale)
         => \A i \in CandIdx : ev.cands[i].applied <=> i = 1

C4_Witness ==
  /\ AtEndFrame
  /\ Len(ev.cands) = 2
  /\ \A i \in CandIdx : ev.cands[i].cost = 150000 * CostScale
  /\ ev.cands[1].v = 2
  /\ ev.cands[2].v = 1
  /\ ev.cands[1].applied
  /\ ~ev.cands[2].applied

\* C5: a learning update for a view runs only in an end_frame whose frame counter
\* is at least 2 above the frame of the last retile applied to the view, which is
\* the action frame the scheduler recorded.
C5_LearningWaitsTwoFrames ==
  AtEndFrame =>
    \A v \in ev.learned :
      /\ v \in DOMAIN hist
      /\ v \in DOMAIN g_action_frame
      /\ g_action_frame[v] = hist[v].frame
      /\ ev.frame >= hist[v].frame + 2

C5_Witness ==
  /\ LearnedFor(1)
  /\ 1 \in DOMAIN hist
  /\ ev.frame = hist[1].frame + 2

\* C6 (as stated): under every cool-off, every retile end_frame applies to the
\* view is eventually followed by a learning update for the view.
C6_EveryRetileIsLearned == AppliedTo(1) ~> LearnedFor(1)

\* C6 (what the code does guarantee): under a cool-off of at least 2 frames, with
\* one end_frame for each begin_frame, every retile end_frame applies to the view
\* is eventually followed by a learning update for the view.
C6_RetileIsLearnedUnderCooloff2 ==
  [](AppliedTo(1) /\ g_policy.cooloff_frames >= 2 => <>LearnedFor(1))

\* C7: after transform_soa_to_aosoa(v, T) with T >= 1 and then
\* transform_aosoa_to_soa(v), every column holds the bytes it held before the
\* pair, the view has the length it had, the layout is SoA and aosoa_tile is 0.
C7_RoundTrip ==
  \A v \in DOMAIN snap :
    (snap[v].stage = "back" /\ snap[v].T >= 1) =>
      /\ v \in ViewIds
      /\ g_views[v].len = snap[v].len
      /\ DOMAIN g_views[v].columns = DOMAIN snap[v].columns
      /\ \A p \in DOMAIN snap[v].columns :
           /\ g_views[v].columns[p].size = snap[v].columns[p].size
           /\ \A i \in 0..(snap[v].len - 1) :
                CellAt(g_views[v].columns[p], i) = CellAt(snap[v].columns[p], i)
      /\ g_views[v].layout = "SoA"
      /\ g_views[v].aosoa_tile = 0

C7_Witness ==
  \E v \in DOMAIN snap :
    /\ snap[v].stage = "back"
    /\ snap[v].T = MaxTile
    /\ snap[v].len = MaxLen
    /\ CellAt(snap[v].columns["Position.x"], MaxLen - 1) = 1

\* the size of every column of view V when each holds V.len elements
ColumnBytes(V) == SumOver([p \in DOMAIN V.columns |-> V.len * V.columns[p].elem_size],
                          DOMAIN V.columns)

SameColumns(V, W) ==
  /\ DOMAIN V.columns = DOMAIN W.columns
  /\ \A p \in DOMAIN V.columns : V.columns[p].size = W.columns[p].size
  /\ bytes_to_move(V) = bytes_to_move(W)

\* C8: bytes_to_move(v) is the sum over v's columns of length times element
\* size, and no step (retile, retile_to_soa, a retile applied by end_frame, or
\* any other) changes the set of column paths, a column's size or bytes_to_move(v).
C8_BytesToMoveKept ==
  /\ [](\A v \in ViewIds : bytes_to_move(g_views[v]) = ColumnBytes(g_views[v]))
  /\ [][\A v \in ViewIds : v <= Len(g_views') /\ SameColumns(g_views[v], g_views'[v])]_vars

C8_Witness ==
  /\ AppliedTo(1)
  /\ g_views[1].layout = "AoSoA"
  /\ g_views[1].aosoa_tile > g_views[1].len
  /\ bytes_to_move(g_views[1]) = 6 * ElemSize * g_views[1].len
  /\ g_views[1].len > 0

\* C9 (as stated): aosoa_tile is positive when the layout is AoSoA and 0 otherwise.
C9_TileMatchesLayout ==
  \A v \in ViewIds :
    IF g_views[v].layout = "AoSoA" THEN g_views[v].aosoa_tile > 0
    ELSE g_views[v].aosoa_tile = 0

\* C10 (as stated): a_div, a_mem and a_tail lie in [0, 0.25] in every state.
C10_CoefficientsInRange ==
  /\ g_learn.a_div \in 0..(CoefScale \div 4)
  /\ g_learn.a_mem \in 0..(CoefScale \div 4)
  /\ g_learn.a_tail \in 0..(CoefScale \div 4)

AtInit == ev.op \in {"init", "init_again"}

\* C11: a dynsoa_init call after the first of the process changes neither the
\* stored config nor LearnState, reloads nothing, and leaves the once flag, the
\* initialized flag and the persistence file as they were.
C11_SecondInitIgnored ==
  [][ev'.op = "init_again" =>
       /\ g_cfg' = g_cfg
       /\ g_learn' = g_learn
       /\ UNCHANGED <<g_once, g_inited, persist_file>>]_vars

\* a second init with a file on disk that a reload would have taken values from
C11_Witness ==
  /\ ev.op = "init_again"
  /\ g_inited
  /\ scheduler_load_state(g_learn, persist_file) # g_learn

\* C12 (as stated): a dynsoa_init that follows a dynsoa_shutdown initializes
\* again: after it the runtime is marked initialized.
C12_InitAfterShutdownInitializes ==
  (AtInit /\ ev.after_shutdown) => g_inited

\* the runtime state a lifecycle call can touch or that shutdown could disturb
RuntimeState == <<storeVars, metricVars, schedVars, lifeVars, crashed>>

\* C13: dynsoa_shutdown called when the runtime is not initialized writes no
\* persistence file and changes no runtime state.
C13_ShutdownWithoutInitIsNoOp ==
  [][(ev'.op = "shutdown" /\ ~g_inited) => UNCHANGED RuntimeState]_vars

\* a second shutdown, after learning moved LearnState away from the saved file
C13_Witness ==
  /\ ev.op = "shutdown"
  /\ ~ev.was_inited
  /\ g_once
  /\ persist_file # scheduler_save_state(g_learn)

\* one unit of a coefficient is 1e-7, so two coefficients within 1e-9 are equal
Within1e9(x, y) == Abs(x - y) = 0

\* C14 (as stated): when dynsoa_init follows the dynsoa_shutdown of an initialized
\* runtime, LearnState is within 1e-9 of its value just before the shutdown.
C14_ShutdownThenInitRestores ==
  (AtInit /\ ev.after_shutdown /\ ev.was_inited) =>
    /\ Within1e9(g_learn.a_div, ev.before.a_div)
    /\ Within1e9(g_learn.a_mem, ev.before.a_mem)
    /\ Within1e9(g_learn.a_tail, ev.before.a_tail)

\* the last min(n, 120) of the n samples emitted for view v, oldest first
MostRecent(v, n) == [i \in 1..Min(n, WindowCap) |-> Stamped(v, n - Min(n, WindowCap) + i)]

\* C15: after any sequence of emit_metric and run_kernel calls the window of every
\* view holds at most 120 samples, and they are exactly the most recently emitted
\* samples of that view, in emission order.
C15_WindowHoldsLast120 ==
  \A v \in WindowViews :
    /\ Len(Window(g_agg, v)) <= 120
    /\ Window(g_agg, v) = MostRecent(v, pc[v])

\* more than 120 samples emitted for view 1, the last one by run_kernel
C15_Witness ==
  /\ pc[1] > 120
  /\ pc[2] > 0
  /\ ev.op = "run_kernel"
  /\ Len(Window(g_agg, 1)) = 120

\* the samples aggregate(v, k) is about: the last min(k, length) of the window
Newest(v, k) ==
  LET w == Window(g_agg, v)
  IN [i \in 1..Min(k, Len(w)) |-> w[Len(w) - Min(k, Len(w)) + i]]

\* x, in units of 1/(unit * AggScale), is the arithmetic mean of the numbers xs
IsMeanOf(x, unit, xs) == x * Len(xs) * unit = SumSeq(xs) * unit * AggScale

Sampled == {v \in DOMAIN g_agg : Len(Window(g_agg, v)) >= 1}

\* C16: for every view with a sample and every k >= 1, aggregate(v, k).mean_us is
\* the arithmetic mean of time_us over the last min(k, window length) samples.
C16_MeanUsIsMean ==
  \A v \in Sampled, k \in 1..MaxWindowFrames :
    IsMeanOf(aggregate(g_agg, v, k).mean_us, 1,
             [i \in DOMAIN Newest(v, k) |-> Newest(v, k)[i].time_us])

\* three samples of different time_us in the window, so k = 1, 2, 3 differ
C16_Witness ==
  /\ Len(Window(g_agg, 1)) = 3
  /\ aggregate(g_agg, 1, 1).mean_us # aggregate(g_agg, 1, 2).mean_us
  /\ aggregate(g_agg, 1, 2).mean_us # aggregate(g_agg, 1, 3).mean_us
  /\ aggregate(g_agg, 1, 3).mean_us = aggregate(g_agg, 1, MaxWindowFrames).mean_us

\* C17 (as stated): for every view with a sample and every k >= 1, the warp_eff,
\* branch_div, mem_coalesce and l2_miss of aggregate(v, k) are the arithmetic
\* means of the sample fields over the last min(k, window length) samples.
C17_SignalsAreMeans ==
  \A v \in Sampled, k \in 1..MaxWindowFrames :
    LET N == Newest(v, k)
        A == aggregate(g_agg, v, k)
    IN /\ IsMeanOf(A.warp_eff, 1, [i \in DOMAIN N |-> N[i].warp_eff])
       /\ IsMeanOf(A.branch_div, 1, [i \in DOMAIN N |-> N[i].branch_div])
       /\ IsMeanOf(A.mem_coalesce, 1, [i \in DOMAIN N |-> N[i].mem_coalesce])
       /\ IsMeanOf(A.l2_miss, 1, [i \in DOMAIN N |-> N[i].l2_miss_rate])

\* t, in units of 1/AggSig, is 0 when p95 = 0 and the quotient p99 / p95 otherwise
IsTailOf(t, p95, p99) ==
  IF p95 = 0 THEN t = 0
  ELSE t * p95 <= p99 * AggSig /\ p99 * AggSig < (t + 1) * p95

\* C18: in every FrameAgg that aggregate returns and in the EWMA of every view,
\* tail_ratio is 0 when p95_us = 0 and p99_us / p95_us otherwise.
C18_TailRatioFollowsP95 ==
  \A v \in DOMAIN g_agg :
    /\ IsTailOf(EwmaOf(g_agg, v).tail_ratio, EwmaOf(g_agg, v).p95_us, EwmaOf(g_agg, v).p99_us)
    /\ \A k \in 0..MaxWindowFrames :
         IsTailOf(aggregate(g_agg, v, k).tail_ratio,
                  aggregate(g_agg, v, k).p95_us, aggregate(g_agg, v, k).p99_us)

\* after a metrics_note_frame_end that moved a positive p95: the EWMA and the
\* aggregate of view 1 both have a positive tail_ratio, the EWMA of view 2 has
\* a p99 without a p95
C18_Witness ==
  /\ ev.op = "note_frame_end"
  /\ 2 \in DOMAIN g_agg
  /\ EwmaOf(g_agg, 1).p95_us > 0
  /\ EwmaOf(g_agg, 1).p95_us % EwmaScale # 0
  /\ EwmaOf(g_agg, 1).tail_ratio > AggSig
  /\ aggregate(g_agg, 1, 2).tail_ratio > 0
  /\ EwmaOf(g_agg, 2).p95_us = 0
  /\ EwmaOf(g_agg, 2).p99_us > 0

\* the rows of a block that acquire fills for view V: r < min(rows, len - offset)
RowsWithin(V, rows, offset) == {r \in 0..(rows - 1) : offset + r < V.len}

\* C19: after acquire_matrix_block(v, comps, rows, offset), for every j < K whose
\* path comps[j] exists and every row r < min(rows, len - offset),
\* block.data[j*rows + r] is element offset + r of column comps[j]; acquire does not
\* modify the view's columns.
C19_AcquireCopiesColumns ==
  [][ev'.op = "acquire" =>
       /\ g_views' = g_views
       /\ mb'.has_data
       /\ \A j \in 0..(Len(ev'.params.comps) - 1) :
            ev'.params.comps[j + 1] \in DOMAIN g_views[1].columns =>
              \A r \in RowsWithin(g_views[1], ev'.params.rows, ev'.params.offset) :
                mb'.data[j * ev'.params.rows + r + 1] =
                  CellAt(g_views[1].columns[ev'.params.comps[j + 1]], ev'.params.offset + r)]_vars

\* an acquire of two existing columns, two rows from offset 1 (the second row is
\* past the end of the view), from a view a write-back has changed
C19_Witness ==
  /\ ev.op = "acquire"
  /\ ev.params = [comps |-> <<"Velocity.vx", "Position.x">>, rows |-> 2, offset |-> 1]
  /\ mb.data[1] = Mark(1)
  /\ mb.data[3] = 12

\* C20 (as stated): after values are written into an acquired block of K existing
\* columns, release with write_back = true followed by acquire with the same
\* (comps, rows, offset) gives a block whose cells, for rows within the view's
\* length, equal the cells of the block that was released.
C20_WriteBackRoundTrip ==
  (/\ ev.op = "acquire"
   /\ ev.again
   /\ \A j \in DOMAIN ev.params.comps : ev.params.comps[j] \in DOMAIN g_views[1].columns)
  => \A j \in 0..(Len(ev.params.comps) - 1) :
       \A r \in RowsWithin(g_views[1], ev.params.rows, ev.params.offset) :
         mb.data[j * ev.params.rows + r + 1] = ev.block.data[j * ev.params.rows + r + 1]

\* C21 (as stated): after acquire_matrix_block, the block column of every path of
\* comps that is not a column of the view holds only zeros.
C21_SkippedColumnsAreZero ==
  ev.op = "acquire" =>
    \A j \in 0..(Len(ev.params.comps) - 1) :
      ev.params.comps[j + 1] \notin DOMAIN g_views[1].columns =>
        \A r \in 0..(ev.params.rows - 1) : mb.data[j * ev.params.rows + r + 1] = 0

\* the ids of the views of archetype a
IdsOf(a) == {i \in 1..Len(g_views) : g_views[i].arch = a}
\* the last call appended a view
Appended == Len(g_views) = ev.size + 1

\* C22 (as stated): make_view(arch) returns the id of the most recently created
\* view of that archetype, and appends a new empty view (len 0, no columns,
\* layout SoA), whose id it returns, only when there was none.
C22_MakeViewReturnsMostRecent ==
  ev.op = "make_view" =>
    /\ ev.ret \in IdsOf(ev.arg)
    /\ \A i \in IdsOf(ev.arg) : i <= ev.ret
    /\ Appended =>
         /\ IdsOf(ev.arg) = {Len(g_views)}
         /\ g_views[ev.ret] = ViewRec(ev.arg, 0, [p \in {} |-> ColumnData(0)])

\* C23: under spawn and make_view every call that creates a view gives it the id
\* (number of views so far) + 1, no view is removed or replaced, and every id
\* make_view returns is one of 1..n, n the number of views.
C23_ViewIdsDense ==
  [][/\ Len(g_views') \in {Len(g_views), Len(g_views) + 1}
     /\ SubSeq(g_views', 1, Len(g_views)) = g_views
     /\ ev'.op = "spawn" => Len(g_views') = Len(g_views) + 1
     /\ ev'.op = "make_view" =>
          /\ ev'.ret \in 1..Len(g_views')
          /\ g_views'[ev'.ret].arch = ev'.arg
          /\ Len(g_views') = Len(g_views) + 1 => ev'.ret = Len(g_views) + 1]_vars

\* make_view found the first of two views of an archetype, after a make_view
\* that had to create one
C23_Witness ==
  /\ ev.op = "make_view"
  /\ ev.ret = 1
  /\ Len(g_views) = 3
  /\ Cardinality(IdsOf(ev.arg)) = 2
  /\ \E i \in 1..Len(g_views) : g_views[i].len = 0 /\ DOMAIN g_views[i].columns = {}

\* what a well-formed atom A says of the aggregate a: the named field (0 when the
\* name is unknown) compared with the number m/d
FieldOf(A, a) ==
  IF A.field \in {"mean_us", "p95_us", "p99_us"} THEN [v |-> a[A.field], scale |-> AggScale]
  ELSE IF A.field \in DOMAIN a THEN [v |-> a[A.field], scale |-> AggSig]
  ELSE [v |-> 0, scale |-> 1]

Says(A, a) ==
  LET c == CmpFrac(FieldOf(A, a).v, FieldOf(A, a).scale, A.m, A.d)
  IN CASE A.op = ">" -> c > 0
       [] A.op = "<" -> c < 0
       [] A.op = ">=" -> c >= 0
       [] A.op = "<=" -> c <= 0
       [] A.op = "==" -> c = 0

\* the trigger predicate of the policy on the aggregate end_frame scans view 1 with
PredWhen == g_policy.triggers[1].when
PredAgg == aggregate(g_agg, 1, 3)
PredHolds == LET r == eval_pred(PredWhen, PredAgg) IN ~r.throws /\ r.val
PredFails == LET r == eval_pred(PredWhen, PredAgg) IN ~r.throws /\ ~r.val

\* C24: a predicate "A && B" of two well-formed atoms holds exactly when both atoms
\* hold and "A || B" exactly when at least one does, a single atom holds when its
\* comparison does, an unknown field reads as 0 ("foo == 0" holds), and
\* "branch_div > 0.2 && mem_coalesce < 0.7" holds for (0.3, 0.6) and fails for (0.1, 0.6)
C24_PredicateIsBooleanOfAtoms ==
  /\ \A A \in PredAtoms :
       PredWhen = A.text => (IF Says(A, PredAgg) THEN PredHolds ELSE PredFails)
  /\ \A A \in PredAtoms, B \in PredAtoms :
       /\ PredWhen = A.text \o " && " \o B.text =>
            (IF Says(A, PredAgg) /\ Says(B, PredAgg) THEN PredHolds ELSE PredFails)
       /\ PredWhen = A.text \o " || " \o B.text =>
            (IF Says(A, PredAgg) \/ Says(B, PredAgg) THEN PredHolds ELSE PredFails)
  /\ PredWhen = "foo == 0" => PredHolds
  /\ PredWhen = "branch_div > 0.2 && mem_coalesce < 0.7" /\ PredAgg.mem_coalesce * 10 = AggSig * 6 =>
       /\ PredAgg.branch_div * 10 = AggSig * 3 => PredHolds
       /\ PredAgg.branch_div * 10 = AggSig * 1 => PredFails

\* end_frame has evaluated the example predicate on (0.3, 0.6) and found it to hold
C24_Witness ==
  /\ PredWhen = "branch_div > 0.2 && mem_coalesce < 0.7"
  /\ PredAgg.branch_div * 10 = AggSig * 3
  /\ PredAgg.mem_coalesce * 10 = AggSig * 6
  /\ PredHolds
  /\ ev.op = "end_frame"

\* C25: a trigger whose predicate cannot be parsed evaluates to false: end_frame
\* completes, no exception leaves it, and the trigger yields no candidate
C25_UnparseableIsFalse ==
  PredWhen \in Unparseable =>
    /\ crashed = "no"
    /\ ev.op = "end_frame" => ev.cands = <<>>

\* the score of the i-th candidate of the last pick, at the epoch the pick counted
PickScore(i) == Ucb(BanditOf(g_bandit, ev.arg), g_bandit_t, ev.cands[i])
Picked == ev.op = "pick"
Exploited == Picked /\ ~ev.again

\* C26: without exploration pick_with_ucb returns a candidate of maximal score
\* mean + bonus (bonus 1.0 for an arm never tried), the first such in list order,
\* and every call advances the decision epoch counter by one
C26_PickIsFirstArgmax ==
  /\ Picked => g_bandit_t = ev.size + 1
  /\ Exploited =>
       /\ \E i \in 1..Len(ev.cands) :
            /\ ev.plan = ev.cands[i]
            /\ \A j \in 1..Len(ev.cands) : PickScore(j) <= PickScore(i)
            /\ \A j \in 1..(i - 1) : PickScore(j) < PickScore(i)
       /\ \A i \in 1..Len(ev.cands) :
            StatOf(BanditOf(g_bandit, ev.arg), ActionKey(ev.cands[i])).n = 0
              => PickScore(i) = BanditScale

\* a pick without exploration among arms of which a later one has the greater mean
\* but the earlier one, tried less, the greater score
C26_Witness ==
  /\ Exploited
  /\ Len(ev.cands) = 3
  /\ ev.plan = ev.cands[2]
  /\ PickScore(1) < PickScore(2)
  /\ PickScore(3) = PickScore(2)

\* the statistic of some action key of view v counts one more sample after the step
BanditGrew(v) ==
  \E k \in DOMAIN BanditOf(g_bandit', v) :
    StatOf(BanditOf(g_bandit', v), k).n = StatOf(BanditOf(g_bandit, v), k).n + 1

\* C27: when end_frame runs the deferred learning update of a retile it applied,
\* the bandit statistic of that view and action is updated with the reward
\* (its sample count grows by one)
C27_LearningUpdatesBandit ==
  [][\A v \in ev'.learned : ev'.op = "end_frame" => BanditGrew(v)]_vars

\* C28: every read and write of a view's sample window and of the per-view table
\* is made holding the one metrics mutex, so an emit_metric on another thread never
\* interleaves with aggregate, metrics_note_frame_end or another emit_metric
C28_WindowAccessHoldsMutex ==
  /\ \A th \in Threads : Accessing(th) => pc.mu = th
  /\ ~(Accessing("main") /\ Accessing("worker"))

\* the candidates of the last end_frame that were applied to view v
AppliedOn(v) == {i \in 1..Len(ev.cands) : ev.cands[i].applied /\ ev.cands[i].v = v}

\* C29: one end_frame invocation applies at most one retile to any one view, even
\* when several policy triggers hold for that view
C29_OneRetilePerViewPerFrame ==
  ev.op = "end_frame" => \A v \in ViewIds : Cardinality(AppliedOn(v)) <= 1

\* view v is in AoSoA layout, off cool-off, has a non-zero aggregate, and a
\* RETILE_SOA trigger of positive priority holds on it
SoaDue(v) ==
  /\ crashed = "no"
  /\ g_views[v].layout = "AoSoA"
  /\ Get0(g_cooldown, v) = 0
  /\ aggregate(g_agg, v, 3).mean_us # 0 \/ aggregate(g_agg, v, 3).p95_us # 0
  /\ \E i \in 1..Len(g_policy.triggers) :
       LET t == g_policy.triggers[i]
           r == eval_pred(t.when, aggregate(g_agg, v, 3))
       IN t.action = "RETILE_SOA" /\ t.priority > 0 /\ ~r.throws /\ r.val

\* C30: a RETILE_SOA trigger takes effect: for such a view end_frame applies
\* retile_to_soa and the layout of the view becomes SoA
C30_RetileSoaTakesEffect ==
  [][\A v \in ViewIds : (SoaDue(v) /\ ev'.op = "end_frame") => g_views'[v].layout = "SoA"]_vars

\* C31: two retiles the scheduler applies to one view lie at least
\* policy.min_frames_between_retiles frames apart
C31_MinFramesBetweenRetiles ==
  [][\A v \in DOMAIN hist :
       (ev'.op = "end_frame" /\ \E i \in 1..Len(ev'.cands) : ev'.cands[i].v = v /\ ev'.cands[i].applied)
         => g_frame_idx - hist[v].frame >= g_policy.min_frames_between_retiles]_vars

\* an end_frame step taken under a policy without triggers
IdleEndFrame == ev'.op = "end_frame" /\ g_policy.triggers = <<>>

\* C32: under a policy whose trigger list is empty no end_frame applies a retile:
\* the views (layout, tile, column bytes) stay as they are, and no cool-off,
\* action frame or baseline is recorded, whatever samples were emitted
C32_NoTriggerNoRetile ==
  [][IdleEndFrame =>
       /\ g_views' = g_views
       /\ g_action_frame' = g_action_frame
       /\ \A v \in DOMAIN g_pre_action_baseline' :
            v \in DOMAIN g_pre_action_baseline
              /\ g_pre_action_baseline'[v] = g_pre_action_baseline[v]
       /\ \A v \in DOMAIN g_cooldown' : g_cooldown'[v] <= Get0(g_cooldown, v)
       /\ \A i \in 1..Len(ev'.cands) : ~ev'.cands[i].applied]_vars

\* end_frame has run under the empty policy over a view that has samples and
\* that the application had retiled to AoSoA
C32_Witness ==
  /\ AtEndFrame
  /\ g_policy.triggers = <<>>
  /\ aggregate(g_agg, 1, 3).mean_us > 0
  /\ g_views[1].layout = "AoSoA"

\* the last end_frame applied a retile, and every retile it applied has target Matrix
PackedOnly(e) ==
  /\ e.op = "end_frame"
  /\ \E i \in 1..Len(e.cands) : e.cands[i].applied
  /\ \A i \in 1..Len(e.cands) : e.cands[i].applied => e.cands[i].to = "Matrix"

\* C33: retile with target Matrix returns true and leaves layout, tile and column
\* bytes of the view as they are, so an end_frame that applies PACK_MATRIX
\* changes nothing in the views
C33_MatrixRetileKeepsStorage ==
  [][/\ \A v \in ViewIds, plan \in MatrixPlans :
          retile_ok(plan) /\ retile(g_views[v], plan) = g_views[v]
     /\ PackedOnly(ev') => g_views' = g_views]_vars

\* end_frame has applied PACK_MATRIX to a view in AoSoA layout that holds data
C33_Witness ==
  /\ PackedOnly(ev)
  /\ g_views[1].layout = "AoSoA"
  /\ g_views[1].columns["Position.x"].cells # NoCells

\* the view ids past the end of the scan
Unscanned == {v \in ViewIds : v > ScanViews}

\* C34: end_frame considers only the view ids 1..64: a view with a greater id
\* gets no retile from the scheduler and no cool-off, action frame or baseline,
\* even when a policy trigger holds on its aggregate
C34_ScanStopsAt64 ==
  /\ \A v \in Unscanned :
       /\ g_views[v] = spawn(<<>>, 1, 1)[1]
       /\ v \notin DOMAIN g_cooldown
       /\ v \notin DOMAIN g_action_frame
       /\ v \notin DOMAIN g_pre_action_baseline
  /\ \A i \in 1..Len(ev.cands) : ev.cands[i].v <= ScanViews

\* an end_frame that retiled view 64 while view 65 had a sample on which the
\* trigger holds
C34_Witness ==
  /\ AppliedTo(ScanViews)
  /\ \E v \in Unscanned :
       LET r == eval_pred(g_policy.triggers[1].when, aggregate(g_agg, v, 3))
       IN aggregate(g_agg, v, 3).mean_us > 0 /\ ~r.throws /\ r.val
  /\ g_views[ScanViews].layout = "AoSoA"

\* view v has a baseline on record: a retile whose learning update is still to run
Pending(v) == v \in DOMAIN g_pre_action_baseline

\* C35: the deferred learning update runs at most once for each retile end_frame
\* applied: it runs only for a view with a baseline on record and removes the
\* baseline, and only an end_frame that applies a retile to the view records one
C35_LearnsOncePerRetile ==
  [][\A v \in DOMAIN g_action_frame' :
       /\ (ev'.op = "end_frame" /\ v \in ev'.learned) => (Pending(v) /\ ~Pending(v)')
       /\ (~Pending(v) /\ Pending(v)') =>
            /\ ev'.op = "end_frame"
            /\ \E i \in 1..Len(ev'.cands) : ev'.cands[i].v = v /\ ev'.cands[i].applied]_vars

\* a later end_frame, long enough after the retile and with no new one, that
\* runs no update because the first one removed the baseline
C35_Witness ==
  /\ AtEndFrame
  /\ ev.learned = {}
  /\ \A i \in CandIdx : ~ev.cands[i].applied
  /\ 1 \in DOMAIN g_action_frame
  /\ LearnDue(g_frame_idx, g_action_frame[1])
  /\ ~Pending(1)
  /\ aggregate(g_agg, 1, 3).mean_us > 0

\* the signal fields of a sample that run_kernel emits
DefaultSignals(s) ==
  /\ s.branch_div = 0
  /\ s.mem_coalesce = SigScale
  /\ s.p95_tile_us = 0
  /\ s.p99_tile_us = 0

QuietWindow(v) ==
  \A i \in 1..Len(Window(g_agg, v)) : DefaultSignals(Window(g_agg, v)[i])

\* C36 (as stated): when every sample in the window of each view whose deferred
\* learning update runs carries the default signal fields of run_kernel, the
\* end_frame leaves a_div, a_mem and a_tail as they were
C36_DefaultSignalsKeepLearnState ==
  [][(/\ ev'.op = "end_frame"
      /\ ev'.learned # {}
      /\ \A v \in ev'.learned : QuietWindow(v))
     => g_learn' = g_learn]_vars

\* C37 (as stated): the scheduler hands bytes_to_move, plan_aosoa, plan_matrix,
\* retile and retile_to_soa only ids of views in the view table: no end_frame
\* reads g_views outside its bounds
C37_SchedulerCallsExistingViews == crashed # "oob"

\* the aggregate plan_aosoa read in the call just made, and its base in 1/AggScale us
Planned == ev.op = "plan_aosoa"
PlannedAgg == aggregate(g_agg, ev.arg, 3)
PlannedBase ==
  IF PlannedAgg.p95_us > 0 THEN PlannedAgg.p95_us
  ELSE IF PlannedAgg.mean_us > 0 THEN PlannedAgg.mean_us ELSE 500 * AggScale

\* est_gain_us against 30 and against 0.35 * base = (7/20) * base, both sides in
\* 1/(20 * GainScale) us; and 0.35 * base against 30 in 1/(20 * AggScale) us
GainAtLeast30 == ev.plan.est_gain_us >= 30 * GainScale
GainAtMostShare == 20 * ev.plan.est_gain_us <= 7 * (GainScale \div AggScale) * PlannedBase
GainIsShare == 20 * ev.plan.est_gain_us = 7 * (GainScale \div AggScale) * PlannedBase
ShareBelow30 == 7 * PlannedBase < 30 * 20 * AggScale

\* C38 (as stated): the est_gain_us of plan_aosoa is at least 30 and at most
\* 0.35 * base
C38_GainWithinClamp == Planned => (GainAtLeast30 /\ GainAtMostShare)

\* C38 (amended): est_gain_us is at least 30; it is at most 0.35 * base when
\* 0.35 * base is 30 or more, and exactly 30 otherwise
C38_GainFloorWins ==
  Planned =>
    /\ GainAtLeast30
    /\ IF ShareBelow30 THEN ev.plan.est_gain_us = 30 * GainScale ELSE GainAtMostShare

\* a plan whose raw estimate was cut down to 0.35 * base, above the floor
C38_Witness ==
  /\ Planned
  /\ ~ShareBelow30
  /\ ev.plan.est_gain_us > 30 * GainScale
  /\ GainIsShare

\* the view a spawn call just appended
Spawned == g_views[Len(g_views)]

\* a column of count F32 zeros
ZeroColumn(col, count) ==
  /\ col.elem_size = 4
  /\ col.size = count * 4
  /\ \A i \in 0..(count - 1) : CellAt(col, i) = 0

Released == ev.op \in {"release", "release_wb"}

\* the cells of view v in which g_views and g_views' differ
ChangedCells(v) ==
  {c \in (DOMAIN g_views[v].columns) \X (0..(g_views[v].len - 1)) :
     CellAt(g_views'[v].columns[c[1]], c[2]) # CellAt(g_views[v].columns[c[1]], c[2])}

\* C40: release_matrix_block with write_back = false leaves every column
\* unchanged; with write_back = true it changes only rows in
\* [offset, min(offset + rows, len)) of at most K columns; either way the block
\* is reset, and releasing a reset block changes nothing
C40_ReleaseTouchesBlockRowsOnly ==
  [][Released' =>
       /\ ev'.op = "release" => g_views' = g_views
       /\ \A c \in ChangedCells(1) :
            /\ c[2] >= mb.offset
            /\ c[2] < Min(mb.offset + mb.rows, g_views[1].len)
       /\ Cardinality({c[1] : c \in ChangedCells(1)}) <= mb.cols
       /\ [g_views' EXCEPT ![1].columns = g_views[1].columns] = g_views
       /\ mb' = MatrixBlock0
       /\ ~mb.has_data => g_views' = g_views]_vars

\* a release with write-back that changed a column, followed by a second release
\* with write-back of the same, now reset, block
C40_Witness ==
  /\ ev.op = "release_wb"
  /\ pc = 3
  /\ ~ev.block.has_data
  /\ g_views[1] # Seeded(spawn(<<>>, 1, BlockLen)[1])

====
